---- MODULE Spec2Model ----
(***************************************************************************)
(* skill-memory: the local skills directory, its git history and the      *)
(* commands that mutate it.                                                *)
(*                                                                         *)
(* Strings that the program parses (skill names, @skill/path references)   *)
(* are sequences of one-character strings.  The working tree is a partial  *)
(* function from folder name to a partial function from file path to file  *)
(* content; a git snapshot is the set of <<folder, path, content>> triples  *)
(* (git tracks files, never empty folders).                                *)
(***************************************************************************)
EXTENDS Integers, Sequences, FiniteSets, TLC

\* ------------------------------------------------------------------ bounds
\* commands in one behaviour
MaxSteps == 2
\* of which commands that meet a failing git or an unreachable remote
MaxDetours == 1
\* distinct contents a source file or a remote manifest may hold
MaxContent == 2
\* largest value given to --offset / --limit
MaxArg == 2
\* length of the strings handed to the parsers and validators
MaxLen == 3

\* ------------------------------------------------------- program constants
DefaultLimit == 20
DefaultOffset == 0

\* ---------------------------------------------------------------- alphabet
\* characters accepted by /^[a-zA-Z0-9_-]+$/ that the inputs below use
NameChars == {"a", "b", "c", "f", "S", "-", "_"}

ManifestFile == <<"S">>

\* the one-character string standing for the byte 0
NullByte == "NUL"

\* ------------------------------------------------------- string primitives
Contains(s, c) == \E i \in 1..Len(s) : s[i] = c

ContainsDotDot(s) == \E i \in 1..(Len(s) - 1) : s[i] = "." /\ s[i + 1] = "."

IndexOf(s, c) ==
  IF Contains(s, c) THEN CHOOSE i \in 1..Len(s) : s[i] = c /\ \A j \in 1..(i - 1) : s[j] # c
  ELSE 0

RECURSIVE TrimLeft(_)
TrimLeft(s) == IF s # <<>> /\ Head(s) = " " THEN TrimLeft(Tail(s)) ELSE s

RECURSIVE TrimRight(_)
TrimRight(s) ==
  IF s # <<>> /\ s[Len(s)] = " " THEN TrimRight(SubSeq(s, 1, Len(s) - 1)) ELSE s

Trim(s) == TrimRight(TrimLeft(s))

RECURSIVE StripLeadingSlashes(_)
StripLeadingSlashes(s) ==
  IF s # <<>> /\ Head(s) = "/" THEN StripLeadingSlashes(Tail(s)) ELSE s

RECURSIVE StripTrailingSlashes(_)
StripTrailingSlashes(s) ==
  IF s # <<>> /\ s[Len(s)] = "/"
  THEN StripTrailingSlashes(SubSeq(s, 1, Len(s) - 1)) ELSE s

\* a normalisation that keeps repeated separators
CollapseSlashes_KeepsRepeats(s) == s

RECURSIVE CollapseSlashes(_)
CollapseSlashes(s) ==
  IF Len(s) < 2 THEN s
  ELSE IF s[1] = "/" /\ s[2] = "/" THEN CollapseSlashes(Tail(s))
  ELSE <<s[1]>> \o CollapseSlashes(Tail(s))

\* ------------------------------------------------------- name validation
\* a validator that stops after the separator check
validateSkillName_SeparatorsOnly(name) ==
  IF name = <<>> \/ Trim(name) = <<>> THEN "Invalid skill name: name cannot be empty"
  ELSE IF name = <<".">> \/ name = <<".", ".">> THEN "Invalid skill name: reserved name"
  ELSE IF ContainsDotDot(name) \/ Contains(name, "/")
    THEN "Invalid skill name: path traversal not allowed"
  ELSE ""

\* validateSkillName: "" when the name is accepted, else the error raised
validateSkillName(name) ==
  IF name = <<>> \/ Trim(name) = <<>> THEN "Invalid skill name: name cannot be empty"
  ELSE IF name = <<".">> \/ name = <<".", ".">> THEN "Invalid skill name: reserved name"
  ELSE IF ContainsDotDot(name) \/ Contains(name, "/") \/ Contains(name, "\\")
    THEN "Invalid skill name: path traversal not allowed"
  ELSE IF Contains(name, NullByte) THEN "Invalid skill name: null bytes not allowed"
  ELSE IF \E i \in 1..Len(name) : name[i] \notin NameChars
    THEN "Invalid skill name: only alphanumeric characters, dashes, and underscores are allowed"
  ELSE ""

\* a faulty parseLocalSkillName: the name is not validated
parseLocalSkillName_Unchecked(input) ==
  LET t == Trim(input)
      n == Trim(IF t # <<>> /\ Head(t) = "@" THEN Tail(t) ELSE t)
  IN [err |-> IF n = <<>> THEN "Invalid skill name: name cannot be empty" ELSE "", name |-> n]

\* parseLocalSkillName: [err, name]
parseLocalSkillName(input) ==
  LET t == Trim(input)
      n == Trim(IF t # <<>> /\ Head(t) = "@" THEN Tail(t) ELSE t)
  IN IF n = <<>> THEN [err |-> "Invalid skill name: name cannot be empty", name |-> n]
     ELSE [err |-> validateSkillName(n), name |-> n]

\* parseSkillPathRef: [err, skillName, filePath]
parseSkillPathRef(input, allowEmptyPath) ==
  LET trimmed == Trim(input)
      withoutAt == IF trimmed = <<>> THEN <<>> ELSE Tail(trimmed)
      slashIndex == IndexOf(withoutAt, "/")
      skillName == IF slashIndex = 0 THEN Trim(withoutAt)
                   ELSE Trim(SubSeq(withoutAt, 1, slashIndex - 1))
      filePath == IF slashIndex = 0 THEN <<>>
                  ELSE Trim(SubSeq(withoutAt, slashIndex + 1, Len(withoutAt)))
      normalized == CollapseSlashes(StripTrailingSlashes(StripLeadingSlashes(filePath)))
      Fail(e) == [err |-> e, skillName |-> <<>>, filePath |-> <<>>]
  IN IF trimmed = <<>> \/ Head(trimmed) # "@"
       THEN Fail("Invalid skill path reference: must start with '@'")
     ELSE IF slashIndex = 0 /\ ~allowEmptyPath
       THEN Fail("Invalid skill path reference: must include file path after skill name")
     ELSE IF skillName = <<>>
       THEN Fail("Invalid skill path reference: skill name cannot be empty")
     ELSE IF ContainsDotDot(skillName) \/ Contains(skillName, "/") \/ Contains(skillName, "\\")
       THEN Fail("Invalid skill name: path traversal not allowed")
     ELSE IF filePath # <<>> /\ ContainsDotDot(filePath)
       THEN Fail("Invalid path: traversal not allowed")
     ELSE IF filePath # <<>> /\ Contains(filePath, NullByte)
       THEN Fail("Invalid skill path reference: null bytes not allowed")
     ELSE IF filePath = <<>> /\ ~allowEmptyPath
       THEN Fail("Invalid skill path reference: file path cannot be empty")
     ELSE IF Contains(skillName, NullByte)
       THEN Fail("Invalid skill path reference: null bytes not allowed")
     ELSE IF \E i \in 1..Len(skillName) : skillName[i] \notin NameChars
       THEN Fail("Invalid skill name: only alphanumeric characters, dashes, and underscores are allowed")
     ELSE [err |-> "", skillName |-> skillName, filePath |-> normalized]

\* ------------------------------------------------------------ working tree
\* the set of <<folder, path, content>> triples git sees in a working tree
Snapshot(t) == UNION {{<<n, p, t[n][p]>> : p \in DOMAIN t[n]} : n \in DOMAIN t}

Paths(snap) == {<<x[1], x[2]>> : x \in snap}

\* a faulty dirExists: stat().isFile() where isDirectory() is meant
dirExists_IsFile(t, n) == FALSE

dirExists(t, n) == n \in DOMAIN t

fileExists(t, n, p) == n \in DOMAIN t /\ p \in DOMAIN t[n]

\* a function f extended or overwritten at key k
Put(f, k, v) == [x \in DOMAIN f \cup {k} |-> IF x = k THEN v ELSE f[x]]

\* a function f without key k
Drop(f, k) == [x \in DOMAIN f \ {k} |-> f[x]]

EmptyMap == [x \in {} |-> 0]

\* ------------------------------------------------------------------- git
\* outcomes of the external git executable during one phase of a command:
\* it works, it is not installed, or its init / add / commit step fails
GitEnvs == {"ok", "missing", "initFail", "addFail", "commitFail"}

BaselineMessage == <<"chore: initialize skill-memory git tracking">>

HeadSnap(commits) == IF commits = <<>> THEN {} ELSE commits[Len(commits)].snap

isGitInstalled(env) == env # "missing"

\* a repository is [git, commits, index]; every primitive returns the
\* repository it leaves behind and whether it threw
gitInit(g, env) ==
  IF env = "initFail" THEN [g |-> g, threw |-> TRUE]
  ELSE [g |-> [git |-> TRUE, commits |-> <<>>, index |-> {}], threw |-> FALSE]

gitAdd(g, t, env) ==
  IF env = "addFail" THEN [g |-> g, threw |-> TRUE]
  ELSE [g |-> [g EXCEPT !.index = Snapshot(t)], threw |-> FALSE]

\* a faulty gitCommit: "nothing to commit" is rethrown like any other error
gitCommit_NothingThrows(g, message, env) ==
  IF env = "commitFail" \/ g.index = HeadSnap(g.commits)
    THEN [g |-> g, threw |-> TRUE, committed |-> FALSE]
  ELSE [g |-> [g EXCEPT !.commits = Append(@, [msg |-> message, snap |-> g.index])],
        threw |-> FALSE, committed |-> TRUE]

gitCommit(g, message, env) ==
  IF env = "commitFail" THEN [g |-> g, threw |-> TRUE, committed |-> FALSE]
  ELSE IF g.index = HeadSnap(g.commits) THEN [g |-> g, threw |-> FALSE, committed |-> FALSE]
  ELSE [g |-> [g EXCEPT !.commits = Append(@, [msg |-> message, snap |-> g.index])],
        threw |-> FALSE, committed |-> TRUE]

\* a faulty buildConventionalCommit: the body is appended without the test
\* that there is one
buildConventionalCommit_AlwaysBody(options) ==
  <<options.type, "(">> \o options.scope \o <<"): ">> \o options.description
    \o <<"\n\n">> \o options.body

buildConventionalCommit(options) ==
  LET header == <<options.type, "(">> \o options.scope \o <<"): ">> \o options.description
  IN IF options.body # <<>> THEN header \o <<"\n\n">> \o options.body ELSE header

listExistingSkills(t) == DOMAIN t

\* a faulty ensureSkillsGitRepo: git init without the baseline commit
ensureSkillsGitRepo_NoBaseline(g, t, env) ==
  LET i == gitInit(g, env)
      R(gg, th, ini, mig, base) ==
        [g |-> gg, threw |-> th, initialized |-> ini, migratedSkills |-> mig, baseline |-> base]
  IN IF g.git THEN R(g, FALSE, FALSE, {}, FALSE)
     ELSE IF i.threw THEN R(i.g, TRUE, FALSE, {}, FALSE)
     ELSE R(i.g, FALSE, TRUE, listExistingSkills(t), FALSE)

\* a faulty ensureSkillsGitRepo: no test for existing git metadata
ensureSkillsGitRepo_NoRepoCheck(g, t, env) ==
  LET a == gitAdd([g EXCEPT !.git = TRUE], t, env)
      c == gitCommit(a.g, BaselineMessage, env)
  IN [g |-> c.g, threw |-> env = "initFail" \/ a.threw \/ c.threw, initialized |-> TRUE,
      migratedSkills |-> listExistingSkills(t), baseline |-> c.committed]

\* ensureSkillsGitRepo: [g, threw, initialized, migratedSkills, baseline]
ensureSkillsGitRepo(g, t, env) ==
  LET existingSkills == listExistingSkills(t)
      i == gitInit(g, env)
      a == gitAdd(i.g, t, env)
      c == gitCommit(a.g, BaselineMessage, env)
      R(gg, th, ini, mig, base) ==
        [g |-> gg, threw |-> th, initialized |-> ini, migratedSkills |-> mig, baseline |-> base]
  IN IF g.git THEN R(g, FALSE, FALSE, {}, FALSE)
     ELSE IF i.threw THEN R(i.g, TRUE, FALSE, {}, FALSE)
     ELSE IF existingSkills = {} THEN R(i.g, FALSE, TRUE, {}, FALSE)
     ELSE IF a.threw THEN R(a.g, TRUE, FALSE, {}, FALSE)
     ELSE IF c.threw THEN R(c.g, TRUE, FALSE, {}, FALSE)
     ELSE R(c.g, FALSE, TRUE, existingSkills, c.committed)

\* ensureGitReady: [g, status, migrated, baseline]; status is "skipped" for
\* the early returns, "threw" for the catch branch (a warning is printed)
ensureGitReady(g, dirOK, t, env) ==
  LET r == ensureSkillsGitRepo(g, t, env)
  IN IF ~isGitInstalled(env) \/ ~dirOK
       THEN [g |-> g, status |-> "skipped", migrated |-> {}, baseline |-> FALSE]
     ELSE [g |-> r.g, status |-> IF r.threw THEN "threw" ELSE "ok",
           migrated |-> r.migratedSkills, baseline |-> r.baseline]

\* a faulty commitSkillChange: no try/catch around the git steps
commitSkillChange_NoCatch(g, dirOK, t, options, env) ==
  LET r == ensureSkillsGitRepo(g, t, env)
      a == gitAdd(r.g, t, env)
      c == gitCommit(a.g, buildConventionalCommit(options), env)
      R(gg, st, com) == [g |-> gg, status |-> st, migrated |-> r.migratedSkills,
                         baseline |-> r.baseline, committed |-> com]
  IN IF ~isGitInstalled(env) \/ ~dirOK
       THEN [g |-> g, status |-> "skipped", migrated |-> {}, baseline |-> FALSE,
             committed |-> FALSE]
     ELSE IF r.threw THEN R(r.g, "rethrown", FALSE)
     ELSE IF a.threw THEN R(a.g, "rethrown", FALSE)
     ELSE IF c.threw THEN R(c.g, "rethrown", FALSE)
     ELSE R(c.g, "ok", c.committed)

\* commitSkillChange: [g, status, migrated, baseline, committed]; status is
\* "skipped" for the early returns, "threw" for the catch branch (a warning)
commitSkillChange(g, dirOK, t, options, env) ==
  LET r == ensureSkillsGitRepo(g, t, env)
      a == gitAdd(r.g, t, env)
      c == gitCommit(a.g, buildConventionalCommit(options), env)
      R(gg, st, com) == [g |-> gg, status |-> st, migrated |-> r.migratedSkills,
                         baseline |-> r.baseline, committed |-> com]
  IN IF ~isGitInstalled(env) \/ ~dirOK
       THEN [g |-> g, status |-> "skipped", migrated |-> {}, baseline |-> FALSE,
             committed |-> FALSE]
     ELSE IF r.threw THEN R(r.g, "threw", FALSE)
     ELSE IF a.threw THEN R(a.g, "threw", FALSE)
     ELSE IF c.threw THEN R(c.g, "threw", FALSE)
     ELSE R(c.g, "ok", c.committed)

\* the git primitives of undo and history
getCommitCount(g) == IF g.git THEN Len(g.commits) ELSE 0

getLastCommitMessage(g) == g.commits[Len(g.commits)].msg

\* git reset --hard <target>: every path of the index or of the target takes
\* the target's content, a folder emptied by the reset is removed, untracked
\* files stay
ResetTree(t, index, target) ==
  LET touched == Paths(index) \cup Paths(target)
      names == DOMAIN t \cup {x[1] : x \in target}
      NewFiles(n) ==
        LET old == IF n \in DOMAIN t THEN t[n] ELSE EmptyMap
            keep == {p \in DOMAIN old : <<n, p>> \notin touched}
            tgt == {x[2] : x \in {y \in target : y[1] = n}}
        IN [p \in keep \cup tgt |->
              IF p \in tgt THEN (CHOOSE x \in target : x[1] = n /\ x[2] = p)[3]
              ELSE old[p]]
      Removed(n) == n \in DOMAIN t /\ \E p \in DOMAIN t[n] : p \notin DOMAIN NewFiles(n)
      live == {n \in names : DOMAIN NewFiles(n) # {} \/ (n \in DOMAIN t /\ ~Removed(n))}
  IN [n \in live |-> NewFiles(n)]

gitResetHard(g, t) ==
  LET target == g.commits[Len(g.commits) - 1].snap
  IN [g |-> [g EXCEPT !.commits = SubSeq(@, 1, Len(@) - 1), !.index = target],
      tree |-> ResetTree(t, g.index, target)]

\* getGitHistory: the commits newest first, from offset, at most limit
RECURSIVE Reverse(_)
Reverse(s) == IF s = <<>> THEN <<>> ELSE Reverse(Tail(s)) \o <<Head(s)>>

Min(x, y) == IF x < y THEN x ELSE y

getGitHistory(g, offset, limit) ==
  LET all == Reverse(g.commits)
  IN IF ~g.git \/ offset >= Len(all) THEN <<>>
     ELSE SubSeq(all, offset + 1, Min(Len(all), offset + limit))

\* ------------------------------------------------------ remote references
\* a host literal is one element of the sequence
GithubHost == "github.com"
LocalHost == "localhost"

HomeDir == <<"/", "h">>
Cwd == <<"/", "w">>

\* -------------------------------------------------------- path primitives
\* A resolved path is the sequence of its components.

\* the components of a path string, cut at every '/'
RECURSIVE SplitPath(_)
SplitPath(s) ==
  LET i == IndexOf(s, "/")
  IN IF i = 0 THEN <<s>>
     ELSE <<SubSeq(s, 1, i - 1)>> \o SplitPath(SubSeq(s, i + 1, Len(s)))

\* path.normalize of an absolute path: '' and '.' vanish, '..' climbs
RECURSIVE NormalizeOnto(_, _)
NormalizeOnto(done, todo) ==
  IF todo = <<>> THEN done
  ELSE NormalizeOnto(
         IF Head(todo) = <<>> \/ Head(todo) = <<".">> THEN done
         ELSE IF Head(todo) = <<".", ".">>
           THEN (IF done = <<>> THEN done ELSE SubSeq(done, 1, Len(done) - 1))
         ELSE Append(done, Head(todo)),
         Tail(todo))

\* path.join(base, segment) on an absolute base
join(base, segment) == NormalizeOnto(<<>>, base \o SplitPath(segment))

\* the string of a resolved path
RECURSIVE PathString(_)
PathString(comps) ==
  IF comps = <<>> THEN <<>> ELSE <<"/">> \o Head(comps) \o PathString(Tail(comps))

startsWith(s, prefix) == Len(s) >= Len(prefix) /\ SubSeq(s, 1, Len(prefix)) = prefix

LastIndexOf(s, c) ==
  IF Contains(s, c) THEN CHOOSE i \in 1..Len(s) : s[i] = c /\ \A j \in (i + 1)..Len(s) : s[j] # c
  ELSE 0

\* path.resolve(base, p): p itself when it is absolute, else base joined with p
resolve(base, p) ==
  LET comps == NormalizeOnto(<<>>, SplitPath(IF p # <<>> /\ Head(p) = "/" THEN p
                                             ELSE base \o <<"/">> \o p))
  IN IF comps = <<>> THEN <<"/">> ELSE PathString(comps)

resolvePath(pathStr) ==
  LET tilde == Len(pathStr) >= 2 /\ pathStr[1] = "~" /\ pathStr[2] = "/"
  IN IF pathStr = <<"~">> THEN HomeDir
     ELSE resolve(IF tilde THEN HomeDir ELSE Cwd,
                  IF tilde THEN SubSeq(pathStr, 3, Len(pathStr)) ELSE pathStr)

NoRepoRef == [err |-> "", host |-> "", owner |-> <<>>, repo |-> <<>>, path |-> <<>>]

parseLocalRepoReference(pathStr) ==
  IF pathStr = <<>> THEN [NoRepoRef EXCEPT !.err = "Invalid localhost reference. Path cannot be empty."]
  ELSE [NoRepoRef EXCEPT !.host = LocalHost, !.path = resolvePath(pathStr)]

parseGithubRepoReference(ownerRepo) ==
  LET slashIndex == IndexOf(ownerRepo, "/")
      owner == SubSeq(ownerRepo, 1, slashIndex - 1)
      repo == SubSeq(ownerRepo, slashIndex + 1, Len(ownerRepo))
  IN IF slashIndex = 0 THEN [NoRepoRef EXCEPT !.err = "Invalid repo reference"]
     ELSE IF Contains(repo, "/") THEN [NoRepoRef EXCEPT !.err = "Invalid repo reference"]
     ELSE IF owner = <<>> \/ repo = <<>>
       THEN [NoRepoRef EXCEPT !.err = "Invalid repo reference. Owner and repo cannot be empty."]
     ELSE [NoRepoRef EXCEPT !.host = GithubHost, !.owner = owner, !.repo = repo]

parseRepoReference(ref) ==
  LET atIndex == IndexOf(ref, "@")
      host == SubSeq(ref, 1, atIndex - 1)
      rest == SubSeq(ref, atIndex + 1, Len(ref))
  IN IF atIndex = 0 THEN [NoRepoRef EXCEPT !.err = "Invalid repo reference"]
     ELSE IF host = <<LocalHost>> THEN parseLocalRepoReference(rest)
     ELSE IF host = <<GithubHost>> THEN parseGithubRepoReference(rest)
     ELSE [NoRepoRef EXCEPT !.err = "Invalid host. Supported hosts: github.com, localhost"]

\* parseSkillReference: [err, host, owner, repo, path, skillName]
parseSkillReference(ref) ==
  LET lastAtIndex == LastIndexOf(ref, "@")
      skillName == SubSeq(ref, lastAtIndex + 1, Len(ref))
      repoRef == parseRepoReference(SubSeq(ref, 1, lastAtIndex - 1))
      Fail(e) == [err |-> e, host |-> "", owner |-> <<>>, repo |-> <<>>, path |-> <<>>,
                  skillName |-> <<>>]
  IN IF lastAtIndex = 0 THEN Fail("Invalid skill reference")
     ELSE IF skillName = <<>> THEN Fail("Invalid skill reference. Skill name cannot be empty.")
     ELSE IF repoRef.err # "" THEN Fail("Invalid skill reference")
     ELSE [err |-> "", host |-> repoRef.host, owner |-> repoRef.owner, repo |-> repoRef.repo,
           path |-> repoRef.path, skillName |-> skillName]

\* buildFullRef: host@path@skill or host@owner/repo@skill
buildFullRef(ref, skillName) ==
  IF ref.host = LocalHost THEN <<ref.host, "@">> \o ref.path \o <<"@">> \o skillName
  ELSE <<ref.host, "@">> \o ref.owner \o <<"/">> \o ref.repo \o <<"@">> \o skillName

\* ------------------------------------------------------------- store paths
getSkillMemoryDir == NormalizeOnto(<<>>, SplitPath(HomeDir) \o <<<<".skill-memory">>>>)
getReposCacheDir == join(getSkillMemoryDir, <<"repos">>)
getSkillsDir == join(getSkillMemoryDir, <<"skills">>)

RECURSIVE RemoveDotDot(_)
RemoveDotDot(s) ==
  IF Len(s) < 2 THEN s
  ELSE IF s[1] = "." /\ s[2] = "." THEN RemoveDotDot(SubSeq(s, 3, Len(s)))
  ELSE <<s[1]>> \o RemoveDotDot(Tail(s))

RECURSIVE StripDotsAndSpaces(_)
StripDotsAndSpaces(s) ==
  IF s # <<>> /\ Head(s) \in {" ", "."} THEN StripDotsAndSpaces(Tail(s))
  ELSE IF s # <<>> /\ s[Len(s)] \in {" ", "."}
    THEN StripDotsAndSpaces(SubSeq(s, 1, Len(s) - 1))
  ELSE s

\* the segment after the removals and replacements, before the empty check
Sanitized(segment) ==
  LET noNull == SelectSeq(segment, LAMBDA c : c # NullByte)
      noDotDot == RemoveDotDot(noNull)
      stripped == StripDotsAndSpaces(noDotDot)
  IN [i \in 1..Len(stripped) |-> IF stripped[i] \in {"/", "\\"} THEN "-" ELSE stripped[i]]

\* a sanitizer that hands back an empty segment
sanitizePathSegment_AllowsEmpty(segment) == [err |-> "", segment |-> Sanitized(segment)]

\* sanitizePathSegment: [err, segment]
sanitizePathSegment(segment) ==
  IF Sanitized(segment) = <<>> THEN [err |-> "Invalid path segment", segment |-> <<>>]
  ELSE [err |-> "", segment |-> Sanitized(segment)]

\* validatePathWithinBase: "" or the error raised
validatePathWithinBase(targetPath, baseDir) ==
  IF startsWith(PathString(targetPath), PathString(baseDir)) THEN ""
  ELSE "Path traversal attempt detected"

\* getRepoCachePath: [err, path]
getRepoCachePath(ref) ==
  LET sanitizedHost == sanitizePathSegment(ref.host)
      sanitizedOwner == sanitizePathSegment(ref.owner)
      sanitizedRepo == sanitizePathSegment(ref.repo)
      cachePath == join(join(join(getReposCacheDir, sanitizedHost.segment),
                             sanitizedOwner.segment), sanitizedRepo.segment)
  IN IF sanitizedHost.err # "" THEN [err |-> sanitizedHost.err, path |-> <<>>]
     ELSE IF sanitizedOwner.err # "" THEN [err |-> sanitizedOwner.err, path |-> <<>>]
     ELSE IF sanitizedRepo.err # "" THEN [err |-> sanitizedRepo.err, path |-> <<>>]
     ELSE IF validatePathWithinBase(cachePath, getReposCacheDir) # ""
       THEN [err |-> validatePathWithinBase(cachePath, getReposCacheDir), path |-> <<>>]
     ELSE [err |-> "", path |-> cachePath]

\* getLocalSkillPath: [err, path]
getLocalSkillPath(name) ==
  LET sanitizedName == sanitizePathSegment(name)
      skillPath == join(getSkillsDir, sanitizedName.segment)
  IN IF sanitizedName.err # "" THEN [err |-> sanitizedName.err, path |-> <<>>]
     ELSE IF validatePathWithinBase(skillPath, getSkillsDir) # ""
       THEN [err |-> validatePathWithinBase(skillPath, getSkillsDir), path |-> <<>>]
     ELSE [err |-> "", path |-> skillPath]

\* ------------------------------------------------------- the outside world
\* skills offered by every remote source (names as resolved from manifests)
RemoteSkillNames == {<<"a">>, <<"a", ".">>}

\* the one local source directory that exists
LocalSourcePath == <<"/", "p">>

\* outcomes of reaching the remote repository
FetchEnvs == {"ok", "nogit", "timeout", "notfound", "unreachable"}

\* content of a manifest whose name field was rewritten by --rename
RenamedContent == 0

TemplateContent == 1

\* ------------------------------------------------------------------- state
VARIABLES
  dirOK,   \* the skills directory exists
  tree,    \* the skills working tree: folder -> (path -> content)
  repo,    \* [git, commits, index] of the skills directory
  cache,   \* [dir, ver]: the repository cache of github.com@o/r (ver 0: not cloned)
  last,    \* what the last command or library call did and what it started from
  steps,   \* number of commands run; MaxSteps once the behaviour has ended
  detours  \* number of them that met a failing git or an unreachable remote

vars == <<dirOK, tree, repo, cache, last, steps, detours>>

MutOps == {"init", "delete", "copy", "rename", "upsert", "remoteAdd"}

NoRepo == [git |-> FALSE, commits |-> <<>>, index |-> {}]

Pre == [dirOK |-> dirOK, tree |-> tree, repo |-> repo, cache |-> cache]

NoLast ==
  [op |-> "none", exit |-> 0, err |-> "", warned |-> FALSE,
   pre |-> [dirOK |-> FALSE, tree |-> EmptyMap, repo |-> NoRepo, cache |-> [dir |-> FALSE, ver |-> 0]],
   ready |-> "none", commit |-> "none", bootAt |-> "none", baseline |-> FALSE,
   migrated |-> {}, committed |-> FALSE, msg |-> <<>>, name |-> <<>>, found |-> FALSE,
   shown |-> <<>>, offset |-> 0, limit |-> 0,
   afterCmd |-> FALSE, cmdPre |-> EmptyMap, cmdCommitted |-> FALSE, cmdClean |-> FALSE,
   env |-> "ok", fetchWarned |-> FALSE, listed |-> {}, body |-> <<>>, run |-> 0]

\* pre-existing un-versioned skills: folders holding a manifest
InitialTrees ==
  {[n \in D |-> [p \in {ManifestFile} |-> TemplateContent]] : D \in SUBSET {<<"a">>, <<"b">>}}

\* the store as `init @a` leaves an empty skills directory when git works
TreeAfterInitA == [n \in {<<"a">>} |-> [p \in {ManifestFile} |-> TemplateContent]]

RepoAfterInitA ==
  [git |-> TRUE, index |-> Snapshot(TreeAfterInitA),
   commits |-> <<[msg |-> <<"feat", "(", "a", "): ", "initialize new skill">>,
                  snap |-> Snapshot(TreeAfterInitA)]>>]

\* the store as `init @a` then `init @b` leave it
TreeAfterInitAB == [n \in {<<"a">>, <<"b">>} |-> [p \in {ManifestFile} |-> TemplateContent]]

RepoAfterInitAB ==
  [git |-> TRUE, index |-> Snapshot(TreeAfterInitAB),
   commits |-> RepoAfterInitA.commits \o
               <<[msg |-> <<"feat", "(", "b", "): ", "initialize new skill">>,
                  snap |-> Snapshot(TreeAfterInitAB)]>>]

\* a store is new (no skills directory, or an empty one), holds skills that
\* were installed before git tracking existed, or was set up by one or two
\* inits
Init ==
  /\ dirOK \in BOOLEAN
  /\ \/ /\ tree \in (IF dirOK THEN InitialTrees ELSE {EmptyMap})
        /\ repo = NoRepo
        /\ last = [NoLast EXCEPT !.run = IF tree = EmptyMap THEN 0 ELSE -1]
     \/ /\ dirOK
        /\ tree = TreeAfterInitA
        /\ repo = RepoAfterInitA
        /\ last = [NoLast EXCEPT !.run = 1]
     \/ /\ dirOK
        /\ tree = TreeAfterInitAB
        /\ repo = RepoAfterInitAB
        /\ last = [NoLast EXCEPT !.run = 2]
  /\ cache = [dir |-> FALSE, ver |-> 0]
  /\ steps = 0
  /\ detours = 0

\* a command that fails before touching anything. A command that exits
\* non-zero, and the read-only commands (history, list, view, download,
\* remote list), end the behaviour: what could follow them is what can run
\* from the state they leave
Fail(op, e, nm) ==
  /\ last' = [NoLast EXCEPT !.op = op, !.exit = 1, !.err = e, !.pre = Pre, !.name = nm,
                            !.run = -1]
  /\ steps' = MaxSteps
  /\ UNCHANGED <<dirOK, tree, repo, cache, detours>>

\* the git outcomes of the two phases of a command (ensureGitReady, then
\* commitSkillChange): one process meets the same git in both; once .git
\* exists ensureGitReady does nothing and git init is never run again
EnvPairs ==
  IF detours >= MaxDetours THEN {<<"ok", "ok">>}
  ELSE IF repo.git THEN {<<e, e>> : e \in GitEnvs \ {"initFail"}}
  ELSE {<<e, e>> : e \in GitEnvs}

\* the part of a mutating command after ensureGitReady returned r1: the file
\* edits (t2 is the tree they leave), the success message, commitSkillChange.
\* An exception that escapes commitSkillChange ends the process with exit 1
Finish(op, nm, t2, cache2, options, e1, e2, fetchEnv, warnedBefore, r1) ==
  LET r2 == commitSkillChange(r1.g, TRUE, t2, options, e2)
  IN /\ detours' = IF <<e1, e2, fetchEnv>> = <<"ok", "ok", "ok">> THEN detours ELSE detours + 1
     /\ dirOK' = TRUE
     /\ tree' = t2
     /\ repo' = r2.g
     /\ cache' = cache2
     /\ steps' = steps + 1
     /\ last' = [NoLast EXCEPT
          !.op = op, !.pre = Pre, !.name = nm, !.found = TRUE,
          !.exit = IF r2.status = "rethrown" THEN 1 ELSE 0,
          !.warned = (r1.status = "threw" \/ r2.status = "threw"),
          !.fetchWarned = warnedBefore,
          !.env = e2,
          !.ready = r1.status, !.commit = r2.status,
          !.bootAt = IF repo.git THEN "none"
                     ELSE IF r1.g.git THEN "ready"
                     ELSE IF r2.g.git THEN "commit" ELSE "none",
          !.baseline = r1.baseline \/ r2.baseline,
          !.migrated = r1.migrated \cup r2.migrated,
          !.committed = r2.committed,
          !.msg = buildConventionalCommit(options),
          !.body = options.body,
          !.run = IF last.run >= 0 THEN last.run + 1 ELSE -1]

\* a faulty command shape: the file edits run before ensureGitReady
Mutate_EditsFirst(op, nm, t2, cache2, options, e1, e2, fetchEnv, warnedBefore) ==
  Finish(op, nm, t2, cache2, options, e1, e2, fetchEnv, warnedBefore,
         ensureGitReady(repo, TRUE, t2, e1))

\* the common shape of a mutating command: ensureGitReady on the tree as the
\* command found it, then the edits and the commit
Mutate(op, nm, t2, cache2, options, e1, e2, fetchEnv, warnedBefore) ==
  Finish(op, nm, t2, cache2, options, e1, e2, fetchEnv, warnedBefore,
         ensureGitReady(repo, TRUE, tree, e1))

\* ------------------------------------------------------------------- init
InitInputs == {<<"@", "a">>, <<"b">>, <<".", ".">>}

initCommand(input) ==
  LET p == parseLocalSkillName(input)
  IN IF p.err # "" THEN Fail("init", p.err, p.name)
     ELSE IF dirExists(tree, p.name) THEN Fail("init", "already exists", p.name)
     ELSE \E e \in EnvPairs :
            Mutate("init", p.name,
                   Put(tree, p.name, [x \in {ManifestFile} |-> TemplateContent]), cache,
                   [type |-> "feat", scope |-> p.name,
                    description |-> <<"initialize new skill">>, body |-> <<>>],
                   e[1], e[2], "ok", FALSE)

InitAction == steps < MaxSteps /\ \E input \in InitInputs : initCommand(input)

\* ----------------------------------------------------------------- delete
DeleteInputs == {<<"@", "a">>, <<"@", "b">>, <<"@", "a", "/", "f">>, <<"@", "a", "/", "S">>,
                 <<"@", ".", ".", "/", "a">>, <<"@", ".", "a">>}

deleteCommand(input) ==
  LET ref == parseSkillPathRef(input, TRUE)
      skillName == ref.skillName
      filePath == ref.filePath
  IN IF ref.err # "" THEN Fail("delete", ref.err, skillName)
     ELSE IF ~dirExists(tree, skillName) THEN Fail("delete", "Skill not found", skillName)
     ELSE IF filePath # <<>>
       THEN IF ~fileExists(tree, skillName, filePath)
              THEN Fail("delete", "File not found in skill", skillName)
            ELSE \E e \in EnvPairs :
                   Mutate("delete", skillName,
                          Put(tree, skillName, Drop(tree[skillName], filePath)), cache,
                          [type |-> "chore", scope |-> skillName,
                           description |-> <<"delete ">> \o filePath, body |-> <<>>],
                          e[1], e[2], "ok", FALSE)
     ELSE \E e \in EnvPairs :
            Mutate("delete", skillName, Drop(tree, skillName), cache,
                   [type |-> "chore", scope |-> skillName,
                    description |-> <<"delete skill">>, body |-> <<>>],
                   e[1], e[2], "ok", FALSE)

DeleteAction == steps < MaxSteps /\ \E input \in DeleteInputs : deleteCommand(input)

\* ------------------------------------------------------------------- copy
PairInputs == {<<<<"@", "a">>, <<"b">>>>, <<<<"@", "b">>, <<"a">>>>, <<<<"a">>, <<"@", "a">>>>,
               <<<<"a">>, <<".", ".">>>>, <<<<"a">>, <<".", "a">>>>}

copyCommand(sourceInput, targetInput) ==
  LET src == parseLocalSkillName(sourceInput)
      tgt == parseLocalSkillName(targetInput)
  IN IF src.err # "" THEN Fail("copy", src.err, src.name)
     ELSE IF tgt.err # "" THEN Fail("copy", tgt.err, tgt.name)
     ELSE IF src.name = tgt.name THEN Fail("copy", "Cannot copy to same name", tgt.name)
     ELSE IF ~dirExists(tree, src.name) THEN Fail("copy", "Skill not found", tgt.name)
     ELSE IF dirExists(tree, tgt.name) THEN Fail("copy", "already exists", tgt.name)
     ELSE \E e \in EnvPairs :
            Mutate("copy", tgt.name, Put(tree, tgt.name, tree[src.name]), cache,
                   [type |-> "feat", scope |-> tgt.name,
                    description |-> <<"copy skill from ">> \o src.name, body |-> <<>>],
                   e[1], e[2], "ok", FALSE)

CopyAction == steps < MaxSteps /\ \E a \in PairInputs : copyCommand(a[1], a[2])

\* ----------------------------------------------------------------- rename
renameCommand(sourceInput, targetInput) ==
  LET src == parseLocalSkillName(sourceInput)
      tgt == parseLocalSkillName(targetInput)
  IN IF src.err # "" THEN Fail("rename", src.err, src.name)
     ELSE IF tgt.err # "" THEN Fail("rename", tgt.err, tgt.name)
     ELSE IF src.name = tgt.name THEN Fail("rename", "Cannot rename to same name", tgt.name)
     ELSE IF ~dirExists(tree, src.name) THEN Fail("rename", "Skill not found", tgt.name)
     ELSE IF dirExists(tree, tgt.name) THEN Fail("rename", "already exists", tgt.name)
     ELSE /\ tree' = Put(Drop(tree, src.name), tgt.name, tree[src.name])
          /\ steps' = steps + 1
          /\ last' = [NoLast EXCEPT !.op = "rename", !.pre = Pre, !.name = tgt.name,
                                    !.found = TRUE,
                                    !.run = IF last.run >= 0 THEN last.run + 1 ELSE -1]
          /\ UNCHANGED <<dirOK, repo, cache, detours>>

RenameAction == steps < MaxSteps /\ \E a \in PairInputs : renameCommand(a[1], a[2])

\* ----------------------------------------------------------------- upsert
UpsertDests == {<<"@", "a", "/", "f">>, <<"@", "a", "/", "S">>, <<"@", "a">>,
                <<"@", "a", "/", "/">>, <<"@", "b", "/", ".", ".", "/", "f">>,
                <<"@", ".", "a", "/", "f">>}

UpsertBodies == {<<>>, <<"m">>}

\* source is the content of the local source file, 0 when it does not exist
upsertCommand(source, dest, message) ==
  LET ref == parseSkillPathRef(dest, FALSE)
      skillName == ref.skillName
      filePath == ref.filePath
      isUpdate == fileExists(tree, skillName, filePath)
  IN IF source = 0 THEN Fail("upsert", "Source file not found", <<>>)
     ELSE IF ref.err # "" THEN Fail("upsert", ref.err, skillName)
     ELSE IF ~dirExists(tree, skillName) THEN Fail("upsert", "Skill not found", skillName)
     ELSE IF filePath = <<>>
       \* the target is the skill folder itself: copyFile throws after ensureGitReady ran
       THEN \E e1 \in (IF repo.git THEN {"ok"} ELSE GitEnvs) :
              LET r1 == ensureGitReady(repo, TRUE, tree, e1)
              IN /\ repo' = r1.g
                 /\ steps' = MaxSteps
                 /\ last' = [NoLast EXCEPT
                      !.op = "upsert", !.exit = 1, !.err = "EISDIR", !.pre = Pre,
                      !.name = skillName, !.found = TRUE, !.warned = (r1.status = "threw"),
                      !.ready = r1.status,
                      !.bootAt = IF ~repo.git /\ r1.g.git THEN "ready" ELSE "none",
                      !.baseline = r1.baseline, !.migrated = r1.migrated, !.run = -1]
                 /\ UNCHANGED <<dirOK, tree, cache, detours>>
     ELSE \E e \in EnvPairs :
            Mutate("upsert", skillName,
                   Put(tree, skillName, Put(tree[skillName], filePath, source)), cache,
                   [type |-> IF isUpdate THEN "fix" ELSE "feat", scope |-> skillName,
                    description |-> (IF isUpdate THEN <<"update ">> ELSE <<"add ">>) \o filePath,
                    body |-> message],
                   e[1], e[2], "ok", FALSE)

UpsertAction ==
  /\ steps < MaxSteps
  /\ \E source \in 0..MaxContent, dest \in UpsertDests, message \in UpsertBodies :
       /\ (message # <<>> \/ dest # <<"@", "a", "/", "f">>) => source \in {0, 1}
       /\ (dest = <<"@", ".", "a", "/", "f">>) => (source = 1 /\ message = <<>>)
       /\ upsertCommand(source, dest, message)

\* ------------------------------------------------------------- remote add
RemoteRefs == {<<GithubHost, "@", "o", "/", "r", "@", "a">>,
               <<GithubHost, "@", "o", "/", "r", "@", "a", ".">>,
               <<GithubHost, "@", "o", "/", "r", "@", "c">>,
               <<LocalHost, "@", "/", "p", "@", "a">>,
               <<LocalHost, "@", "/", "q", "@", "a">>,
               <<"gitlab.com", "@", "o", "/", "r", "@", "a">>}

RenameArgs == {[given |-> FALSE, name |-> <<>>], [given |-> TRUE, name |-> <<"b">>],
               [given |-> TRUE, name |-> <<".", ".">>]}

validateLocalPath(path) == IF path = LocalSourcePath THEN "" ELSE "Path not found"

\* cloneRepo / pullRepo / ensureRepo: [cache, err, warned]
cloneRepo(c, upstream, env) ==
  IF env = "ok" THEN [cache |-> [c EXCEPT !.ver = upstream], err |-> "", warned |-> FALSE]
  ELSE [cache |-> c, warned |-> FALSE,
        err |-> IF env = "timeout" THEN "Connection timed out"
                ELSE IF env = "notfound" THEN "Repository not found"
                ELSE "Network error: Unable to connect"]

\* a faulty pullRepo: a failed fetch is raised like a failed clone
pullRepo_Raises(c, upstream, env) == cloneRepo(c, upstream, env)

pullRepo(c, upstream, env) ==
  IF env = "ok" THEN [cache |-> [c EXCEPT !.ver = upstream], err |-> "", warned |-> FALSE]
  ELSE [cache |-> c, err |-> "", warned |-> TRUE]

ensureRepo(c, upstream, env) ==
  IF c.ver # 0 THEN pullRepo(c, upstream, env) ELSE cloneRepo(c, upstream, env)

findSkillByName(skillName) == skillName \in RemoteSkillNames

\* upstream is the version the remote repository holds, env the outcome of
\* reaching it
addCommand(skillArg, rename, upstream, env) ==
  LET skillRef == parseSkillReference(skillArg)
      isLocal == skillRef.host = LocalHost
      c1 == [cache EXCEPT !.dir = TRUE]
      fetched == ensureRepo(c1, upstream, env)
      cache2 == IF isLocal THEN cache ELSE fetched.cache
      finalName == IF rename.given THEN rename.name ELSE skillRef.skillName
      sourceContent == IF isLocal THEN TemplateContent ELSE cache2.ver
      manifest == IF rename.given THEN RenamedContent ELSE sourceContent
      FailAfterFetch(e) ==
        /\ last' = [NoLast EXCEPT !.op = "remoteAdd", !.exit = 1, !.err = e, !.pre = Pre,
                                  !.name = finalName, !.fetchWarned = ~isLocal /\ fetched.warned,
                                  !.found = findSkillByName(skillRef.skillName), !.run = -1]
        /\ cache' = cache2
        /\ steps' = MaxSteps
        /\ UNCHANGED <<dirOK, tree, repo, detours>>
  IN IF rename.given /\ rename.name = <<>>
       THEN Fail("remoteAdd", "--rename requires a name argument", <<>>)
     ELSE IF skillRef.err # "" THEN Fail("remoteAdd", skillRef.err, finalName)
     ELSE IF isLocal /\ validateLocalPath(skillRef.path) # ""
       THEN Fail("remoteAdd", validateLocalPath(skillRef.path), finalName)
     ELSE IF ~isLocal /\ env = "nogit" THEN Fail("remoteAdd", "Git is not installed", finalName)
     ELSE IF ~isLocal /\ fetched.err # ""
       THEN /\ last' = [NoLast EXCEPT !.op = "remoteAdd", !.exit = 1, !.err = fetched.err,
                                      !.pre = Pre, !.name = finalName, !.run = -1]
            /\ cache' = c1
            /\ steps' = MaxSteps
            /\ UNCHANGED <<dirOK, tree, repo, detours>>
     ELSE IF ~findSkillByName(skillRef.skillName) THEN FailAfterFetch("Skill not found")
     ELSE IF validateSkillName(finalName) # "" THEN FailAfterFetch(validateSkillName(finalName))
     ELSE IF dirExists(tree, finalName) THEN FailAfterFetch("already exists")
     ELSE \E e \in EnvPairs :
            /\ isLocal \/ env = "ok" \/ detours < MaxDetours
            /\ Mutate("remoteAdd", finalName,
                      Put(tree, finalName, [x \in {ManifestFile} |-> manifest]), cache2,
                      [type |-> "feat", scope |-> finalName,
                       description |-> <<"add skill from ">> \o
                          (IF isLocal THEN skillRef.path
                           ELSE <<skillRef.host, "/">> \o skillRef.owner \o <<"/">> \o skillRef.repo),
                       body |-> <<>>],
                      e[1], e[2], IF isLocal THEN "ok" ELSE env, ~isLocal /\ fetched.warned)

RemoteAddAction ==
  /\ steps < MaxSteps
  /\ \E skillArg \in RemoteRefs, rename \in RenameArgs :
       IF parseSkillReference(skillArg).host = GithubHost
       THEN \/ \E upstream \in 1..MaxContent :
                 /\ rename.given => upstream = 1
                 /\ addCommand(skillArg, rename, upstream, "ok")
            \/ \E env \in FetchEnvs \ {"ok"} :
                 ~rename.given /\ addCommand(skillArg, rename, 1, env)
       ELSE addCommand(skillArg, rename, 1, "ok")

\* ------------------------------------------------------------------- undo
\* the ghost fields an undo records about the command it follows
UndoFrame ==
  [NoLast EXCEPT
     !.op = "undo", !.pre = Pre,
     !.afterCmd = (last.op \in MutOps /\ last.exit = 0),
     !.cmdPre = last.pre.tree,
     !.cmdCommitted = last.committed,
     !.cmdClean = (last.op \in MutOps /\ last.pre.repo.git
                   /\ Snapshot(last.pre.tree) = HeadSnap(last.pre.repo.commits)
                   /\ \A n \in DOMAIN last.pre.tree : DOMAIN last.pre.tree[n] # {}),
     !.run = IF last.run >= 0 THEN last.run ELSE -1]

\* a faulty undoCommand: one check and one message for fewer than two commits
undoCommand_OneMessage ==
  LET commitCount == getCommitCount(repo)
      lastMessage == getLastCommitMessage(repo)
      r == gitResetHard(repo, tree)
  IN IF ~dirOK THEN Fail("undo", "Skills directory not found", <<>>)
     ELSE IF ~repo.git THEN Fail("undo", "No git repository in skills directory", <<>>)
     ELSE IF commitCount <= 1 THEN Fail("undo", "No commits to undo", <<>>)
     ELSE /\ tree' = r.tree
          /\ repo' = r.g
          /\ steps' = steps + 1
          /\ last' = [UndoFrame EXCEPT !.shown = <<lastMessage>>]
          /\ UNCHANGED <<dirOK, cache, detours>>

\* a faulty undoCommand: the message is read after the reset
undoCommand_MessageAfterReset ==
  LET commitCount == getCommitCount(repo)
      r == gitResetHard(repo, tree)
  IN IF ~dirOK THEN Fail("undo", "Skills directory not found", <<>>)
     ELSE IF ~repo.git THEN Fail("undo", "No git repository in skills directory", <<>>)
     ELSE IF commitCount = 0 THEN Fail("undo", "No commits to undo", <<>>)
     ELSE IF commitCount = 1 THEN Fail("undo", "Already at the initial commit", <<>>)
     ELSE /\ tree' = r.tree
          /\ repo' = r.g
          /\ steps' = steps + 1
          /\ last' = [UndoFrame EXCEPT !.shown = <<getLastCommitMessage(r.g)>>]
          /\ UNCHANGED <<dirOK, cache, detours>>

\* a faulty undoCommand: the check for a single commit is missing and the
\* initial commit is removed like any other
undoCommand_NoInitialCheck ==
  LET commitCount == getCommitCount(repo)
      lastMessage == getLastCommitMessage(repo)
      r == IF commitCount = 1
           THEN [g |-> [repo EXCEPT !.commits = <<>>, !.index = {}],
                 tree |-> ResetTree(tree, repo.index, {})]
           ELSE gitResetHard(repo, tree)
  IN IF ~dirOK THEN Fail("undo", "Skills directory not found", <<>>)
     ELSE IF ~repo.git THEN Fail("undo", "No git repository in skills directory", <<>>)
     ELSE IF commitCount = 0 THEN Fail("undo", "No commits to undo", <<>>)
     ELSE /\ tree' = r.tree
          /\ repo' = r.g
          /\ steps' = steps + 1
          /\ last' = [UndoFrame EXCEPT !.shown = <<lastMessage>>]
          /\ UNCHANGED <<dirOK, cache, detours>>

undoCommand ==
  LET commitCount == getCommitCount(repo)
      lastMessage == getLastCommitMessage(repo)
      r == gitResetHard(repo, tree)
  IN IF ~dirOK THEN Fail("undo", "Skills directory not found", <<>>)
     ELSE IF ~repo.git THEN Fail("undo", "No git repository in skills directory", <<>>)
     ELSE IF commitCount = 0 THEN Fail("undo", "No commits to undo", <<>>)
     ELSE IF commitCount = 1 THEN Fail("undo", "Already at the initial commit", <<>>)
     ELSE /\ tree' = r.tree
          /\ repo' = r.g
          /\ steps' = steps + 1
          /\ last' = [UndoFrame EXCEPT !.shown = <<lastMessage>>]
          /\ UNCHANGED <<dirOK, cache, detours>>

UndoAction == steps < MaxSteps /\ undoCommand

\* ---------------------------------------------------------------- history

\* a flag is [given, val]; parseInt(val, 10) || dflt
ParseIntOr(val, dflt) == IF val = 0 THEN dflt ELSE val

parseArgs(offsetArg, limitArg) ==
  [offset |-> IF offsetArg.given THEN ParseIntOr(offsetArg.val, DefaultOffset) ELSE DefaultOffset,
   limit |-> IF limitArg.given THEN ParseIntOr(limitArg.val, DefaultLimit) ELSE DefaultLimit]

FlagArgs == {[given |-> FALSE, val |-> 0]} \cup {[given |-> TRUE, val |-> v] : v \in 0..MaxArg}

historyCommand(offsetArg, limitArg) ==
  LET a == parseArgs(offsetArg, limitArg)
      totalCount == getCommitCount(repo)
      entries == getGitHistory(repo, a.offset, a.limit)
      Shown(e, x) ==
        /\ last' = [NoLast EXCEPT !.op = "history", !.pre = Pre, !.shown = e, !.exit = x,
                                  !.offset = IF offsetArg.given THEN offsetArg.val ELSE DefaultOffset,
                                  !.limit = IF limitArg.given THEN limitArg.val ELSE DefaultLimit,
                                  !.run = -1]
        /\ steps' = MaxSteps
        /\ UNCHANGED <<dirOK, tree, repo, cache, detours>>
  IN IF ~dirOK THEN Fail("history", "Skills directory not found", <<>>)
     ELSE IF ~repo.git THEN Fail("history", "No git repository in skills directory", <<>>)
     ELSE IF totalCount = 0 THEN Shown(<<>>, 0)
     ELSE Shown([i \in 1..Len(entries) |-> entries[i].msg], 0)

HistoryAction ==
  /\ steps < MaxSteps
  /\ \E offsetArg \in FlagArgs, limitArg \in FlagArgs :
       /\ ~offsetArg.given \/ ~limitArg.given \/ offsetArg.val = limitArg.val
       /\ historyCommand(offsetArg, limitArg)

\* ------------------------------------------------------------------- list
\* listLocalSkills: the folders that hold a manifest
listLocalSkills(t) == {n \in DOMAIN t : ManifestFile \in DOMAIN t[n]}

\* what a read-only command leaves in last; nothing else changes
ReadOnly(op, nm, x, e) ==
  /\ last' = [NoLast EXCEPT !.op = op, !.pre = Pre, !.name = nm, !.exit = x, !.err = e,
                            !.listed = IF op = "list" THEN listLocalSkills(tree) ELSE {},
                            !.run = -1]
  /\ steps' = MaxSteps
  /\ UNCHANGED <<dirOK, tree, repo, cache, detours>>

listCommand == ReadOnly("list", <<>>, 0, "")

ListAction == steps < MaxSteps /\ listCommand

\* ------------------------------------------------------------------- view
ViewInputs == {<<"@", "a", "/", "S">>, <<"@", "b", "/", "S">>,
               <<"@", "a", "/", ".", ".", "/", "S">>}

\* a faulty viewCommand: it prepares the repository as a mutating command does
viewCommand_Tracks(input) ==
  LET ref == parseSkillPathRef(input, FALSE)
  IN IF ref.err # "" THEN Fail("view", ref.err, ref.skillName)
     ELSE IF ~dirExists(tree, ref.skillName) THEN Fail("view", "Skill not found", ref.skillName)
     ELSE IF ~fileExists(tree, ref.skillName, ref.filePath)
       THEN Fail("view", "File not found in skill", ref.skillName)
     ELSE /\ last' = [NoLast EXCEPT !.op = "view", !.pre = Pre, !.name = ref.skillName,
                                    !.run = -1]
          /\ repo' = ensureGitReady(repo, dirOK, tree, "ok").g
          /\ steps' = MaxSteps
          /\ UNCHANGED <<dirOK, tree, cache, detours>>

viewCommand(input) ==
  LET ref == parseSkillPathRef(input, FALSE)
  IN IF ref.err # "" THEN Fail("view", ref.err, ref.skillName)
     ELSE IF ~dirExists(tree, ref.skillName) THEN Fail("view", "Skill not found", ref.skillName)
     ELSE IF ~fileExists(tree, ref.skillName, ref.filePath)
       THEN Fail("view", "File not found in skill", ref.skillName)
     ELSE ReadOnly("view", ref.skillName, 0, "")

ViewAction == steps < MaxSteps /\ \E input \in ViewInputs : viewCommand(input)

\* --------------------------------------------------------------- download
DownloadInputs == {<<"@", "a", "/", "S">>, <<"@", "a">>}

\* the destination: a path outside the store, or the folder b/ of the skills
\* directory (written with its trailing slash)
DownloadDests == {"outside", "skills/b/"}

\* path.basename
Basename(p) == SubSeq(p, LastIndexOf(p, "/") + 1, Len(p))

\* copyDir of folder files under the path prefix
Nested(prefix, files) ==
  [q \in {prefix \o <<"/">> \o p : p \in DOMAIN files} |->
     files[SubSeq(q, Len(prefix) + 2, Len(q))]]

Merge(f, g) == [x \in DOMAIN f \cup DOMAIN g |-> IF x \in DOMAIN g THEN g[x] ELSE f[x]]

downloadCommand(input, dest) ==
  LET ref == parseSkillPathRef(input, TRUE)
      skillName == ref.skillName
      sourcePath == ref.filePath
      isEntireSkill == sourcePath = <<>>
      target == <<"b">>
      destExists == dirExists(tree, target)
      old == IF destExists THEN tree[target] ELSE EmptyMap
      \* resolveFileDestination / resolveDirectoryDestination, then the copy
      written ==
        IF ~isEntireSkill THEN Put(old, Basename(sourcePath), tree[skillName][sourcePath])
        ELSE IF destExists THEN Merge(old, Nested(skillName, tree[skillName]))
        ELSE tree[skillName]
  IN IF ref.err # "" THEN Fail("download", ref.err, skillName)
     ELSE IF ~dirExists(tree, skillName) THEN Fail("download", "Skill not found", skillName)
     ELSE IF ~isEntireSkill /\ ~fileExists(tree, skillName, sourcePath)
       THEN Fail("download", "File not found in skill", skillName)
     ELSE IF dest = "outside" THEN ReadOnly("download", skillName, 0, "")
     ELSE /\ last' = [NoLast EXCEPT !.op = "download", !.pre = Pre, !.name = skillName,
                                    !.run = -1]
          /\ tree' = Put(tree, target, written)
          /\ steps' = MaxSteps
          /\ UNCHANGED <<dirOK, repo, cache, detours>>

DownloadAction ==
  /\ steps < MaxSteps
  /\ \E input \in DownloadInputs, dest \in DownloadDests : downloadCommand(input, dest)

\* ------------------------------------------------------------ remote list
RepoRefs == {<<GithubHost, "@", "o", "/", "r">>, <<LocalHost, "@", "/", "p">>,
             <<LocalHost, "@", "/", "q">>, <<"gitlab.com", "@", "o", "/", "r">>}

remoteListCommand(repoArg, upstream, env) ==
  LET repoRef == parseRepoReference(repoArg)
      isLocal == repoRef.host = LocalHost
      c1 == [cache EXCEPT !.dir = TRUE]
      fetched == ensureRepo(c1, upstream, env)
      Done(x, e, c) ==
        /\ last' = [NoLast EXCEPT !.op = "remoteList", !.pre = Pre, !.exit = x, !.err = e,
                                  !.fetchWarned = ~isLocal /\ x = 0 /\ fetched.warned,
                                  !.listed = IF x = 0 THEN RemoteSkillNames ELSE {},
                                  !.run = -1]
        /\ cache' = c
        /\ steps' = MaxSteps
        /\ UNCHANGED <<dirOK, tree, repo, detours>>
  IN IF repoRef.err # "" THEN Done(1, repoRef.err, cache)
     ELSE IF isLocal
       THEN IF validateLocalPath(repoRef.path) # ""
              THEN Done(1, validateLocalPath(repoRef.path), cache)
            ELSE Done(0, "", cache)
     ELSE IF env = "nogit" THEN Done(1, "Git is not installed", cache)
     ELSE IF fetched.err # "" THEN Done(1, fetched.err, c1)
     ELSE Done(0, "", fetched.cache)

RemoteListAction ==
  /\ steps < MaxSteps
  /\ \E repoArg \in RepoRefs :
       IF parseRepoReference(repoArg).host = GithubHost
       THEN \/ \E upstream \in 1..MaxContent : remoteListCommand(repoArg, upstream, "ok")
            \/ \E env \in FetchEnvs \ {"ok"} : remoteListCommand(repoArg, 1, env)
       ELSE remoteListCommand(repoArg, 1, "ok")

Next ==
  \/ ListAction
  \/ ViewAction
  \/ DownloadAction
  \/ RemoteListAction
  \/ InitAction
  \/ DeleteAction
  \/ CopyAction
  \/ RenameAction
  \/ UpsertAction
  \/ RemoteAddAction
  \/ UndoAction
  \/ HistoryAction


Spec == Init /\ [][Next]_vars

\* ========================================================= manifest header
\* The text of a SKILL.md is a sequence of tokens: the fence '---', the
\* line-ending characters, keys, the separator ': ' and the characters of
\* values and body.
CR == "CR"
LF == "LF"
Fence == "---"
KeySep == ": "

HasCRLF(text) == \E i \in 1..(Len(text) - 1) : text[i] = CR /\ text[i + 1] = LF

\* FRONTMATTER_REGEX on a text: [matched, len, captured], len the length of
\* the match and captured the shortest text between the fence lines
MatchFrontmatter(content) ==
  LET open == IF Len(content) >= 2 /\ content[1] = Fence /\ content[2] = LF THEN 2
              ELSE IF /\ Len(content) >= 3
                      /\ content[1] = Fence /\ content[2] = CR /\ content[3] = LF THEN 3
              ELSE 0
      CloseLen(e) ==
        IF e + 2 <= Len(content) /\ content[e + 1] = LF /\ content[e + 2] = Fence THEN 2
        ELSE IF /\ e + 3 <= Len(content)
                /\ content[e + 1] = CR /\ content[e + 2] = LF /\ content[e + 3] = Fence THEN 3
        ELSE 0
      ends == {e \in open..Len(content) : CloseLen(e) > 0}
      first == CHOOSE e \in ends : \A f \in ends : e <= f
  IN IF open = 0 \/ ends = {} THEN [matched |-> FALSE, len |-> 0, captured |-> <<>>]
     ELSE [matched |-> TRUE, len |-> first + CloseLen(first),
           captured |-> SubSeq(content, open + 1, first)]

\* the lines of a text, cut at every LF, without the CR before it
RECURSIVE Lines(_)
Lines(text) ==
  LET i == IndexOf(text, LF)
      line == IF i = 0 THEN text ELSE SubSeq(text, 1, i - 1)
      bare == IF line # <<>> /\ line[Len(line)] = CR THEN SubSeq(line, 1, Len(line) - 1)
              ELSE line
  IN IF i = 0 THEN <<bare>> ELSE <<bare>> \o Lines(SubSeq(text, i + 1, Len(text)))

\* parseYaml of a block of 'key: value' lines: [err, entries], the entries
\* in the order of the lines; a key given twice is an error
parseYaml(text) ==
  LET lines == Lines(text)
      wellFormed == \A i \in 1..Len(lines) : Len(lines[i]) >= 3 /\ lines[i][2] = KeySep
      unique == \A i, j \in 1..Len(lines) : lines[i][1] = lines[j][1] => i = j
  IN IF ~wellFormed \/ ~unique THEN [err |-> "Malformed YAML frontmatter", entries |-> <<>>]
     ELSE [err |-> "",
           entries |-> [i \in 1..Len(lines) |->
                          <<lines[i][1], SubSeq(lines[i], 3, Len(lines[i]))>>]]

\* stringifyYaml: one 'key: value' line per entry, each ended by LF
RECURSIVE stringifyYaml(_)
stringifyYaml(entries) ==
  IF entries = <<>> THEN <<>>
  ELSE <<Head(entries)[1], KeySep>> \o Head(entries)[2] \o <<LF>>
         \o stringifyYaml(Tail(entries))

RECURSIVE trimEnd(_)
trimEnd(text) ==
  IF text # <<>> /\ text[Len(text)] \in {LF, CR, " "}
  THEN trimEnd(SubSeq(text, 1, Len(text) - 1)) ELSE text

\* replace(/\n/g, lineEnding)
RECURSIVE UseLineEnding(_, _)
UseLineEnding(text, lineEnding) ==
  IF text = <<>> THEN <<>>
  ELSE (IF Head(text) = LF THEN lineEnding ELSE <<Head(text)>>)
         \o UseLineEnding(Tail(text), lineEnding)

\* String.prototype.replace with a replacement string: '$$' inserts '$' and
\* '$&' inserts the matched text
RECURSIVE ExpandReplacement(_, _)
ExpandReplacement(replacement, matched) ==
  IF replacement = <<>> THEN <<>>
  ELSE IF Len(replacement) >= 2 /\ replacement[1] = "$" /\ replacement[2] = "$"
    THEN <<"$">> \o ExpandReplacement(SubSeq(replacement, 3, Len(replacement)), matched)
  ELSE IF Len(replacement) >= 2 /\ replacement[1] = "$" /\ replacement[2] = "&"
    THEN matched \o ExpandReplacement(SubSeq(replacement, 3, Len(replacement)), matched)
  ELSE <<Head(replacement)>> \o ExpandReplacement(Tail(replacement), matched)

\* updateSkillFrontmatterName on the text read from SKILL.md:
\* [updated, content], content the text written back
updateSkillFrontmatterName(content, newName) ==
  LET lineEnding == IF HasCRLF(content) THEN <<CR, LF>> ELSE <<LF>>
      match == MatchFrontmatter(content)
      frontmatter == parseYaml(match.captured)
      orderedFrontmatter ==
        <<<<"name", newName>>>> \o SelectSeq(frontmatter.entries, LAMBDA e : e[1] # "name")
      newFrontmatterText ==
        UseLineEnding(trimEnd(stringifyYaml(orderedFrontmatter)), lineEnding)
      replacement ==
        <<Fence>> \o lineEnding \o newFrontmatterText \o lineEnding \o <<Fence>>
      onlyName == UseLineEnding(trimEnd(stringifyYaml(<<<<"name", newName>>>>)), lineEnding)
  IN IF match.matched
       THEN IF frontmatter.err # "" THEN [updated |-> FALSE, content |-> content]
            ELSE [updated |-> TRUE,
                  content |-> ExpandReplacement(replacement, SubSeq(content, 1, match.len))
                                \o SubSeq(content, match.len + 1, Len(content))]
     ELSE [updated |-> TRUE,
           content |-> <<Fence>> \o lineEnding \o onlyName \o lineEnding \o <<Fence>>
                         \o lineEnding \o lineEnding \o content]

\* ------------------------------------------------------- discovered skills
DescriptionMax == 100
Placeholder == <<"No description available">>
UnknownName == <<"unknown">>
EmptyQuoted == <<"\"", "\"">>

\* the value parseYaml gives a scalar: '""' is the empty string, a bare
\* digit is a number, any other text is a string
YamlScalar(v) ==
  IF v = EmptyQuoted THEN [type |-> "string", val |-> <<>>]
  ELSE IF v = <<"1">> THEN [type |-> "number", val |-> v]
  ELSE [type |-> "string", val |-> v]

\* extractFrontmatter: null without a header block or when parseYaml throws
extractFrontmatter(content) ==
  LET match == MatchFrontmatter(content)
      parsed == parseYaml(match.captured)
  IN IF ~match.matched \/ parsed.err # "" THEN [isNull |-> TRUE, entries |-> <<>>]
     ELSE [isNull |-> FALSE, entries |-> parsed.entries]

\* frontmatter.key, undefined when frontmatter is null or lacks the key
Field(frontmatter, key) ==
  LET hits == {i \in 1..Len(frontmatter.entries) : frontmatter.entries[i][1] = key}
  IN IF hits = {} THEN [type |-> "undefined", val |-> <<>>]
     ELSE YamlScalar(frontmatter.entries[CHOOSE i \in hits : TRUE][2])

dirname(filePath) == SubSeq(filePath, 1, Len(filePath) - 1)

\* path.relative for a directory found below baseDir
relative(baseDir, dir) == SubSeq(dir, Len(baseDir) + 1, Len(dir))

getSkillName(frontmatter, filePath, baseDir) ==
  LET name == Field(frontmatter, "name")
      parts == relative(baseDir, dirname(filePath))
  IN IF name.type = "string" THEN name.val
     ELSE IF parts = <<>> THEN UnknownName
     ELSE <<parts[Len(parts)]>>

getSkillDescription(frontmatter, content) ==
  LET description == Field(frontmatter, "description")
      lines == Lines(content)
      trimmed == [i \in 1..Len(lines) |-> Trim(lines[i])]
      found == {i \in 1..Len(lines) :
                  /\ trimmed[i] # <<Fence>>
                  /\ trimmed[i] # <<>>
                  /\ trimmed[i][1] # "#"}
      first == CHOOSE i \in found : \A j \in found : i <= j
  IN IF description.type = "string" THEN description.val
     ELSE IF found = {} THEN Placeholder
     ELSE SubSeq(trimmed[first], 1, Min(DescriptionMax, Len(trimmed[first])))

\* parseSkillFrontmatter on the text read from filePath: [name, description, path]
parseSkillFrontmatter(content, filePath, baseDir) ==
  LET frontmatter == extractFrontmatter(content)
  IN [name |-> getSkillName(frontmatter, filePath, baseDir),
      description |-> getSkillDescription(frontmatter, content),
      path |-> relative(baseDir, dirname(filePath))]

\* ============================================================ library calls
\* The parsers and validators are pure: one behaviour of SpecCalls picks an
\* input and applies one of them to it; the store is not touched.

\* characters of the inputs: one allowed letter, one allowed sign, and the
\* characters the validators single out or reject
InputChars == {"a", "-", ".", "/", "\\", NullByte, " ", "@"}

RECURSIVE StringsOfLen(_, _)
StringsOfLen(chars, n) ==
  IF n = 0 THEN {<<>>}
  ELSE {Append(s, c) : s \in StringsOfLen(chars, n - 1), c \in chars}

StringsUpTo(chars, n) == UNION {StringsOfLen(chars, k) : k \in 0..n}

\* '@xlsx//a///b.py' and '@xlsx/../secret' over the input alphabet
ExampleCollapse == <<"@", "a", "/", "/", "a", "/", "/", "/", "a">>
ExampleTraversal == <<"@", "a", "/", ".", ".", "/", "a">>

NameInputs == StringsUpTo(InputChars, MaxLen)

\* skill path references: any string, and any string behind '@' or '@a'
PathRefInputs ==
  NameInputs \cup {<<"@">> \o s : s \in NameInputs}
             \cup {<<"@", "a">> \o s : s \in NameInputs}
             \cup {ExampleCollapse, ExampleTraversal}

\* the segments of a cached repository: host, owner and repo
SegmentChars == {"a", ".", "/", NullByte}
CacheRefs ==
  [host : {<<GithubHost>>, <<>>, <<".", ".">>},
   owner : StringsUpTo(SegmentChars, MaxLen - 1),
   repo : StringsUpTo(SegmentChars, MaxLen - 1)]

\* repository references: nothing, a host or a host and '@', then any short
\* string of the characters the parser looks at
RepoRefChars == {"o", "/", "~", "@", "."}
RepoRefInputs ==
  {h \o s : h \in {<<>>, <<"@">>, <<GithubHost>>, <<GithubHost, "@">>, <<LocalHost>>,
                   <<LocalHost, "@">>, <<"gitlab.com">>, <<"gitlab.com", "@">>},
            s \in StringsUpTo(RepoRefChars, MaxLen)}

\* manifests: a header of one field or more with distinct keys, values that
\* are plain or hold a '$', either line ending, and a body
HeaderKeys == {"name", "k", "j"}
HeaderValues == {<<"v">>, <<"$", "$">>, <<"$", "&">>}

HeaderFields ==
  UNION {{f \in [1..n -> HeaderKeys \X HeaderValues] :
            \A i, j \in 1..n : f[i][1] = f[j][1] => i = j} : n \in 1..(MaxLen - 1)}

Manifests ==
  [header : {TRUE}, eol : {<<LF>>, <<CR, LF>>}, fields : HeaderFields, body : BOOLEAN]
    \cup [header : {FALSE}, eol : {<<LF>>, <<CR, LF>>}, fields : {<<>>}, body : {TRUE}]

\* the text of a manifest
Render(m) ==
  (IF m.header
   THEN <<Fence>> \o m.eol \o UseLineEnding(stringifyYaml(m.fields), m.eol)
          \o <<Fence>> \o m.eol
   ELSE <<>>)
    \o (IF m.body THEN m.eol \o <<"t">> \o m.eol \o <<"t">> ELSE <<>>)

NewName == <<"b">>

\* skill references: a host and '@' or nothing, an owner/repo or a path, and
\* any short string of name characters and '@'
SkillRefInputs ==
  {h \o r \o t : h \in {<<>>, <<GithubHost, "@">>, <<LocalHost, "@">>, <<"gitlab.com", "@">>},
                 r \in {<<>>, <<"o">>, <<"/", "o">>, <<"o", "/", "o">>},
                 t \in StringsUpTo({"o", "@"}, MaxLen)}

\* a remote source: its cache (absent or holding some version), what the
\* remote serves and how the fetch goes once git is known to be installed
FetchInputs ==
  [cache : [dir : {TRUE}, ver : 0..MaxContent], upstream : 1..MaxContent,
   env : FetchEnvs \ {"nogit"}]

\* manifests of a fetched repository: where the file lies below the
\* repository, its header fields (none: no header block) and its body lines
RepoDir == <<"/", "r">>
LongLine == [i \in 1..(DescriptionMax + 1) |-> "t"]
BodyLines == {<<>>, <<"#", "t">>, <<" ", "t">>, <<Fence>>, LongLine}
SkillHeaderFields ==
  UNION {{f \in [1..n -> {"name", "description"} \X {<<"v">>, EmptyQuoted, <<"1">>}] :
            \A i, j \in 1..n : f[i][1] = f[j][1] => i = j} : n \in 1..2}
SkillFiles ==
  [dir : {<<>>, <<"d">>, <<"d", "e">>}, eol : {<<LF>>, <<CR, LF>>},
   fields : SkillHeaderFields \cup {<<>>},
   body : UNION {[1..n -> BodyLines] : n \in 0..2}]

RECURSIVE JoinLines(_, _)
JoinLines(lines, eol) ==
  IF lines = <<>> THEN <<>> ELSE Head(lines) \o eol \o JoinLines(Tail(lines), eol)

\* the text of a manifest of SkillFiles
RenderSkillFile(f) ==
  (IF f.fields = <<>> THEN <<>>
   ELSE <<Fence>> \o f.eol \o UseLineEnding(stringifyYaml(f.fields), f.eol)
          \o <<Fence>> \o f.eol)
    \o JoinLines(f.body, f.eol)

\* a repository reference as parseRepoReference returns it, and the name
\* of a skill discovered in that repository
ListedSkills ==
  [ref : {r \in {parseRepoReference(s) : s \in RepoRefInputs} : r.err = ""},
   name : StringsUpTo({"a", "@", "/"}, MaxLen - 1) \ {<<>>}]

CallInit ==
  /\ dirOK = FALSE
  /\ tree = EmptyMap
  /\ repo = NoRepo
  /\ cache = [dir |-> FALSE, ver |-> 0]
  /\ steps = 0
  /\ detours = 0
  /\ \/ last \in {[op |-> "input", kind |-> "name", arg |-> s] : s \in NameInputs}
     \/ last \in {[op |-> "input", kind |-> "pathRef", arg |-> s] : s \in PathRefInputs}
     \/ last \in {[op |-> "input", kind |-> "cacheRef", arg |-> r] : r \in CacheRefs}
     \/ last \in {[op |-> "input", kind |-> "repoRef", arg |-> s] : s \in RepoRefInputs}
     \/ last \in {[op |-> "input", kind |-> "manifest", arg |-> m] : m \in Manifests}
     \/ last \in {[op |-> "input", kind |-> "skillRef", arg |-> s] : s \in SkillRefInputs}
     \/ last \in {[op |-> "input", kind |-> "fetch", arg |-> f] : f \in FetchInputs}
     \/ last \in {[op |-> "input", kind |-> "skillFile", arg |-> f] : f \in SkillFiles}
     \/ last \in {[op |-> "input", kind |-> "listed", arg |-> x] : x \in ListedSkills}

Call(kind, op, out) ==
  /\ last.op = "input"
  /\ last.kind = kind
  /\ last' = [op |-> op, arg |-> last.arg, out |-> out]
  /\ UNCHANGED <<dirOK, tree, repo, cache, steps, detours>>

ValidateSkillNameCall == Call("name", "validateSkillName", validateSkillName(last.arg))

ParseLocalSkillNameCall ==
  Call("name", "parseLocalSkillName", parseLocalSkillName(last.arg))

ParseSkillPathRefCall ==
  \E allowEmptyPath \in BOOLEAN :
    Call("pathRef", "parseSkillPathRef",
         [allowEmptyPath |-> allowEmptyPath,
          ref |-> parseSkillPathRef(last.arg, allowEmptyPath)])

GetLocalSkillPathCall == Call("name", "getLocalSkillPath", getLocalSkillPath(last.arg))

GetRepoCachePathCall == Call("cacheRef", "getRepoCachePath", getRepoCachePath(last.arg))

ParseRepoReferenceCall == Call("repoRef", "parseRepoReference", parseRepoReference(last.arg))

UpdateSkillFrontmatterNameCall ==
  Call("manifest", "updateSkillFrontmatterName",
       updateSkillFrontmatterName(Render(last.arg), NewName))

ParseSkillReferenceCall ==
  Call("skillRef", "parseSkillReference", parseSkillReference(last.arg))

EnsureRepoCall ==
  Call("fetch", "ensureRepo", ensureRepo(last.arg.cache, last.arg.upstream, last.arg.env))

ParseSkillFrontmatterCall ==
  Call("skillFile", "parseSkillFrontmatter",
       parseSkillFrontmatter(RenderSkillFile(last.arg),
                             RepoDir \o last.arg.dir \o <<ManifestFile>>, RepoDir))

\* the id remote list prints for a skill, parsed as remote add parses it
BuildFullRefCall ==
  Call("listed", "buildFullRef", parseSkillReference(buildFullRef(last.arg.ref, last.arg.name)))

CallNext ==
  \/ ValidateSkillNameCall
  \/ ParseLocalSkillNameCall
  \/ ParseSkillPathRefCall
  \/ GetLocalSkillPathCall
  \/ GetRepoCachePathCall
  \/ ParseRepoReferenceCall
  \/ UpdateSkillFrontmatterNameCall
  \/ ParseSkillReferenceCall
  \/ EnsureRepoCall
  \/ ParseSkillFrontmatterCall
  \/ BuildFullRefCall

SpecCalls == CallInit /\ [][CallNext]_vars

\* ================================================================ properties
BootOps == {"init", "delete", "copy", "upsert", "remoteAdd"}

\* the last command was a mutating command that ran to its end with git working
RanWithGit == last.op \in BootOps /\ last.exit = 0 /\ last.ready = "ok" /\ last.commit = "ok"

\* the commit a command made last, and the snapshot it was made on
OwnCommit == repo.commits[Len(repo.commits)]
ParentSnap == HeadSnap(SubSeq(repo.commits, 1, Len(repo.commits) - 1))

StartedClean ==
  last.pre.repo.git => Snapshot(last.pre.tree) = HeadSnap(last.pre.repo.commits)

C4_UndoErrors ==
  /\ (last.op = "undo" /\ last.exit # 0) =>
        /\ last.exit = 1
        /\ tree = last.pre.tree /\ repo = last.pre.repo /\ dirOK = last.pre.dirOK
        /\ last.err =
             (IF ~last.pre.dirOK THEN "Skills directory not found"
              ELSE IF ~last.pre.repo.git THEN "No git repository in skills directory"
              ELSE IF Len(last.pre.repo.commits) = 0 THEN "No commits to undo"
              ELSE "Already at the initial commit")
        /\ last.pre.dirOK /\ last.pre.repo.git => Len(last.pre.repo.commits) <= 1
  /\ (last.op = "undo" /\ last.exit = 0) =>
        last.pre.dirOK /\ last.pre.repo.git /\ Len(last.pre.repo.commits) >= 2

\* undo was refused on a store whose only commit is the first one
C4_Witness ==
  /\ last.op = "undo" /\ last.exit = 1
  /\ last.err = "Already at the initial commit"
  /\ Len(repo.commits) = 1
  /\ tree # EmptyMap

\* the tree holds nothing the latest commit lacks
NoDrift == repo.git /\ Snapshot(tree) = HeadSnap(repo.commits)

\* C5 as stated: after any mutating command finishes, the working tree holds
\* no change that is missing from the latest commit, or a warning was printed
\* during that command.
C5_AsStated ==
  (last.op \in MutOps /\ last.exit = 0) => (NoDrift \/ last.warned)

\* the file change a command of the given kind and target makes, from tree t
\* to tree u
Applied(op, nm, t, u) ==
  CASE op = "init" -> nm \notin DOMAIN t /\ u = Put(t, nm, [x \in {ManifestFile} |-> TemplateContent])
    [] op = "copy" -> nm \notin DOMAIN t /\ \E src \in DOMAIN t : u = Put(t, nm, t[src])
    [] op = "remoteAdd" ->
         /\ nm \notin DOMAIN t
         /\ \E c \in 0..(MaxContent + 1) : u = Put(t, nm, [x \in {ManifestFile} |-> c])
    [] op = "delete" ->
         /\ nm \in DOMAIN t
         /\ \/ u = Drop(t, nm)
            \/ \E f \in DOMAIN t[nm] : u = Put(t, nm, Drop(t[nm], f))
    [] op = "upsert" ->
         /\ nm \in DOMAIN t
         /\ \E f \in {<<"f">>, ManifestFile}, c \in 1..(MaxContent + 1) :
               u = Put(t, nm, Put(t[nm], f, c))
    [] OTHER -> FALSE

HeadAtCommit ==
  IF last.pre.repo.git THEN HeadSnap(last.pre.repo.commits) ELSE Snapshot(last.pre.tree)

\* C7: a mutating command whose file edits leave the working tree identical
\* to the latest commit succeeds, records no commit of its own and prints no
\* git warning.
C7_NothingToCommit ==
  (last.op \in BootOps /\ last.err = "" /\ last.env = "ok"
     /\ Snapshot(tree) = HeadAtCommit) =>
    /\ last.exit = 0
    /\ ~last.committed
    /\ ~last.warned
    /\ last.commit = "ok"
    /\ last.pre.repo.git => repo.commits = last.pre.repo.commits

\* an upsert wrote the content the file already had in the latest commit
C7_Witness ==
  /\ last.op = "upsert" /\ last.exit = 0 /\ last.env = "ok"
  /\ last.pre.repo.git
  /\ tree = last.pre.tree
  /\ Snapshot(tree) = HeadSnap(repo.commits)
  /\ repo.commits = last.pre.repo.commits
  /\ ~last.warned

Max(x, y) == IF x > y THEN x ELSE y

\* C8 as stated: for a store with K commits, history with offset o and limit
\* l (every o >= 0 and l >= 0 given through the flags) shows exactly
\* max(0, min(l, K - o)) entries, newest first, starting with the (o+1)-th
\* newest commit.
C8_AsStated ==
  (last.op = "history" /\ last.exit = 0) =>
    LET K == Len(last.pre.repo.commits)
        n == Max(0, Min(last.limit, K - last.offset))
    IN /\ Len(last.shown) = n
       /\ \A i \in 1..n : last.shown[i] = last.pre.repo.commits[K - last.offset - i + 1].msg

\* C9: remote add for a target name that already exists in the skills
\* directory fails, with 'already exists' once the source skill was found and
\* the name is valid, and leaves the skills working tree and the commit
\* history unchanged.
C9_AddExistingFails ==
  (last.op = "remoteAdd" /\ last.name \in DOMAIN last.pre.tree) =>
    /\ last.exit = 1
    /\ tree = last.pre.tree
    /\ repo = last.pre.repo
    /\ (last.found /\ validateSkillName(last.name) = "") => last.err = "already exists"

\* the same add ran a second time
C9_Witness ==
  /\ last.op = "remoteAdd" /\ last.exit = 1 /\ last.err = "already exists"
  /\ last.name = <<"a">>
  /\ last.pre.cache.ver # 0
  /\ Len(repo.commits) >= 1
  /\ repo.commits[Len(repo.commits)].msg[1] = "feat"
  /\ tree = last.pre.tree

\* the errors that are not validation or existence errors: the environment,
\* the file system, the state of the history
OtherErrors ==
  {"", "EISDIR", "Git is not installed", "Connection timed out", "Repository not found",
   "Network error: Unable to connect", "Skills directory not found",
   "No git repository in skills directory", "No commits to undo",
   "Already at the initial commit"}

\* C10 as stated: every command that fails on a validation or existence
\* error leaves the skills directory, the repository cache and the git
\* history as they were before the command.
C10_AsStated ==
  (last.exit = 1 /\ last.err \notin OtherErrors) =>
    /\ tree = last.pre.tree /\ dirOK = last.pre.dirOK
    /\ cache = last.pre.cache
    /\ repo = last.pre.repo

ReadOps == {"list", "view", "download", "remoteList", "history"}

\* C11: the read-only commands list, view, download, remote list and history
\* never initialize git metadata in the skills directory, never stage
\* anything and never create or remove a commit.
C11_ReadOnlyLeavesLog ==
  (last.op \in ReadOps) => repo = last.pre.repo

\* a view printed a file of a store that has no git metadata yet
C11_Witness ==
  /\ last.op = "view" /\ last.exit = 0
  /\ ~repo.git
  /\ tree # EmptyMap

\* '<kind>(<scope>): <description>', then a blank line and the body if any
Conventional(kind, scope, description, body) ==
  <<kind, "(">> \o scope \o <<"): ">> \o description
    \o (IF body = <<>> THEN <<>> ELSE <<"\n\n">> \o body)

\* msg is '<kind>(<scope>): ' and a non-empty description, without a body
HeaderOnly(msg, kind, scope) ==
  /\ Len(msg) > Len(scope) + 3
  /\ SubSeq(msg, 1, Len(scope) + 3) = <<kind, "(">> \o scope \o <<"): ">>
  /\ ~Contains(msg, "\n\n")

\* C12: each mutating command commits with '<kind>(<scope>): <description>',
\* followed by a blank line and the body only when a non-empty body is
\* given: init, remote add and copy give feat(<the new skill>), delete gives
\* chore(<skill>), upsert gives feat(<skill>) 'add <path>' when the file did
\* not exist before the write and fix(<skill>) 'update <path>' when it did.
C12_CommitMessages ==
  (last.op \in BootOps /\ last.committed) =>
    LET msg == OwnCommit.msg
        was == last.pre.tree
    IN CASE last.op \in {"init", "remoteAdd", "copy"} ->
              /\ HeaderOnly(msg, "feat", last.name)
              /\ last.name \in DOMAIN tree \ DOMAIN was
         [] last.op = "delete" ->
              /\ HeaderOnly(msg, "chore", last.name)
              /\ last.name \in DOMAIN was
         [] last.op = "upsert" ->
              \E f \in DOMAIN tree[last.name] :
                /\ tree = Put(was, last.name, Put(was[last.name], f, tree[last.name][f]))
                /\ msg = IF f \in DOMAIN was[last.name]
                           THEN Conventional("fix", last.name, <<"update ">> \o f, last.body)
                           ELSE Conventional("feat", last.name, <<"add ">> \o f, last.body)

\* an upsert with -m replaced a file and committed
C12_Witness ==
  /\ last.op = "upsert" /\ last.committed
  /\ last.body # <<>>
  /\ OwnCommit.msg = <<"fix", "(", "a", "): ", "update ", "S", "\n\n", "m">>

\* C13 as stated: a successful rename of skill A to B records exactly one
\* commit, whose message is 'refactor(B): rename skill from A'.
C13_AsStated ==
  (last.op = "rename" /\ last.exit = 0) =>
    /\ Len(repo.commits) = Len(last.pre.repo.commits) + 1
    /\ \E A \in DOMAIN last.pre.tree \ DOMAIN tree :
         OwnCommit.msg = Conventional("refactor", last.name, <<"rename skill from ">> \o A, <<>>)

\* ------------------------------------------------------------------- C14
MatchesAllowList(s) == s # <<>> /\ \A i \in 1..Len(s) : s[i] \in NameChars

Unsafe(s) ==
  ContainsDotDot(s) \/ Contains(s, "/") \/ Contains(s, "\\") \/ Contains(s, NullByte)

\* the text a skill path reference puts before its first '/'
NamePart(input) ==
  LET w == Tail(Trim(input))
      i == IndexOf(w, "/")
  IN Trim(IF i = 0 THEN w ELSE SubSeq(w, 1, i - 1))

\* C14: validateSkillName accepts a string exactly when it matches
\* ^[A-Za-z0-9_-]+$; a string holding '..', '/', '\' or a null byte is
\* rejected by validateSkillName and by parseLocalSkillName, and a skill
\* path reference whose name part holds one of them is rejected by
\* parseSkillPathRef.
C14_NameValidators ==
  /\ (last.op = "validateSkillName") =>
        /\ (last.out = "") <=> MatchesAllowList(last.arg)
        /\ Unsafe(last.arg) => last.out # ""
  /\ (last.op = "parseLocalSkillName" /\ Unsafe(last.arg)) => last.out.err # ""
  /\ (/\ last.op = "parseSkillPathRef"
      /\ Trim(last.arg) # <<>>
      /\ Head(Trim(last.arg)) = "@"
      /\ Unsafe(NamePart(last.arg))) => last.out.ref.err # ""

\* a name with a null byte and no separator was handed to validateSkillName
C14_Witness ==
  /\ last.op = "validateSkillName"
  /\ Contains(last.arg, NullByte)
  /\ ~ContainsDotDot(last.arg)
  /\ ~Contains(last.arg, "/")
  /\ ~Contains(last.arg, "\\")
  /\ last.out = "Invalid skill name: null bytes not allowed"

\* ------------------------------------------------------------------- C15
\* a path strictly below a root: the root's components and at least one more
StrictlyInside(path, root) ==
  Len(path) > Len(root) /\ SubSeq(path, 1, Len(root)) = root

\* C15: getLocalSkillPath either raises or returns a path strictly inside
\* the skills root, getRepoCachePath either raises or returns a path
\* strictly inside the repos cache root, and for a name matching the
\* allow-list getLocalSkillPath returns exactly <skills root>/<name>.
C15_PathsStayInside ==
  /\ (last.op = "getLocalSkillPath") =>
        /\ last.out.err = "" => StrictlyInside(last.out.path, getSkillsDir)
        /\ MatchesAllowList(last.arg) =>
              last.out = [err |-> "", path |-> Append(getSkillsDir, last.arg)]
  /\ (last.op = "getRepoCachePath" /\ last.out.err = "") =>
        StrictlyInside(last.out.path, getReposCacheDir)

\* a name that climbs with '/' and '..' was given a path below the skills root
C15_Witness ==
  /\ last.op = "getLocalSkillPath"
  /\ Contains(last.arg, "/")
  /\ ContainsDotDot(last.arg)
  /\ last.out.err = ""
  /\ StrictlyInside(last.out.path, getSkillsDir)

\* ------------------------------------------------------------------- C16
NormalizedPath(p) ==
  /\ ~ContainsDotDot(p)
  /\ ~Contains(p, NullByte)
  /\ p # <<>> => (Head(p) # "/" /\ p[Len(p)] # "/")
  /\ \A i \in 1..(Len(p) - 1) : ~(p[i] = "/" /\ p[i + 1] = "/")

\* C16: parseSkillPathRef either raises or returns a skillName matching
\* [A-Za-z0-9_-]+ and a filePath without '..', without a null byte, without
\* a leading or trailing '/' and without a repeated '/'; the reference with
\* repeated separators gives the name and the collapsed path, and the
\* reference with '..' in its path raises the traversal error.
C16_PathRefNormalized ==
  (last.op = "parseSkillPathRef") =>
    /\ last.out.ref.err = "" =>
          /\ MatchesAllowList(last.out.ref.skillName)
          /\ NormalizedPath(last.out.ref.filePath)
    /\ last.arg = ExampleCollapse =>
          last.out.ref = [err |-> "", skillName |-> <<"a">>, filePath |-> <<"a", "/", "a">>]
    /\ last.arg = ExampleTraversal =>
          last.out.ref.err = "Invalid path: traversal not allowed"

\* the reference with repeated separators was parsed
C16_Witness ==
  /\ last.op = "parseSkillPathRef"
  /\ last.arg = ExampleCollapse
  /\ ~last.out.allowEmptyPath
  /\ last.out.ref.filePath = <<"a", "/", "a">>

\* ------------------------------------------------------------------- C17
Count(s, c) == Cardinality({i \in 1..Len(s) : s[i] = c})

\* C17: parseRepoReference splits on the first '@'; behind 'github.com' it
\* succeeds exactly on owner/repo with one '/' and non-empty owner and repo;
\* behind 'localhost' it succeeds exactly on a non-empty remainder and
\* returns an absolute path: the home directory for '~', the home directory
\* joined with x for '~/x', and the remainder resolved against the working
\* directory otherwise; without '@' or behind any other host it raises.
C17_AsStated ==
  (last.op = "parseRepoReference") =>
    LET atIndex == IndexOf(last.arg, "@")
        host == SubSeq(last.arg, 1, atIndex - 1)
        rest == SubSeq(last.arg, atIndex + 1, Len(last.arg))
        slash == IndexOf(rest, "/")
        out == last.out
    IN /\ atIndex = 0 => out.err # ""
       /\ (atIndex > 0 /\ host \notin {<<GithubHost>>, <<LocalHost>>}) => out.err # ""
       /\ (atIndex > 0 /\ host = <<GithubHost>>) =>
             /\ (out.err = "") <=>
                   (Count(rest, "/") = 1 /\ slash > 1 /\ slash < Len(rest))
             /\ out.err = "" =>
                   /\ out.host = GithubHost
                   /\ out.owner = SubSeq(rest, 1, slash - 1)
                   /\ out.repo = SubSeq(rest, slash + 1, Len(rest))
       /\ (atIndex > 0 /\ host = <<LocalHost>>) =>
             /\ (out.err = "") <=> (rest # <<>>)
             /\ out.err = "" =>
                   /\ out.host = LocalHost
                   /\ Head(out.path) = "/"
                   /\ out.path =
                        IF rest = <<"~">> THEN HomeDir
                        ELSE IF Len(rest) >= 2 /\ rest[1] = "~" /\ rest[2] = "/"
                          THEN PathString(join(SplitPath(HomeDir), SubSeq(rest, 3, Len(rest))))
                        ELSE resolve(Cwd, rest)

\* ------------------------------------------------------------------- C18
\* the manifest with name first and its other fields in their order
Renamed(m) ==
  [m EXCEPT !.fields = <<<<"name", NewName>>>> \o SelectSeq(m.fields, LAMBDA f : f[1] # "name")]

\* C18: rewriting the name of a manifest that has a header gives the text
\* with name as the first header field, every other header field with its
\* value in the original order, the same line endings and the same content
\* after the header.
C18_AsStated ==
  (last.op = "updateSkillFrontmatterName" /\ last.arg.header /\ last.out.updated) =>
    last.out.content = Render(Renamed(last.arg))

\* ------------------------------------------------------------------- C19
\* C19: parseSkillPathRef called with allowEmptyPath = false never returns
\* an empty filePath.
C19_AsStated ==
  (/\ last.op = "parseSkillPathRef"
   /\ ~last.out.allowEmptyPath
   /\ last.out.ref.err = "") => last.out.ref.filePath # <<>>

\* ------------------------------------------------------------------- C20
\* C20: when the commit step of a mutating command has failed, nothing is
\* left staged: the index equals the snapshot of the latest commit.
C20_AsStated ==
  (last.op \in MutOps /\ last.commit = "threw" /\ repo.git) =>
    repo.index = HeadSnap(repo.commits)

\* ------------------------------------------------------------------- C21
\* C21: the baseline commit occurs at most once in the history and only as
\* its oldest commit; once the skills directory has git metadata,
\* ensureSkillsGitRepo changes nothing and reports initialized = false,
\* whatever git does.
C21_BaselineOnlyFirst ==
  /\ \A i \in 1..Len(repo.commits) : repo.commits[i].msg = BaselineMessage => i = 1
  /\ repo.git =>
        \A env \in GitEnvs :
          ensureSkillsGitRepo(repo, tree, env) =
            [g |-> repo, threw |-> FALSE, initialized |-> FALSE, migratedSkills |-> {},
             baseline |-> FALSE]

\* a command committed on top of a history that starts with the baseline
C21_Witness ==
  /\ last.op \in BootOps /\ last.committed
  /\ last.pre.repo.git
  /\ Len(last.pre.repo.commits) >= 1
  /\ repo.commits[1].msg = BaselineMessage
  /\ Len(repo.commits) = Len(last.pre.repo.commits) + 1

\* ------------------------------------------------------------------- C22
\* the text before the first '@' of a reference
HostPart(ref) == SubSeq(ref, 1, IndexOf(ref, "@") - 1)

\* C22: when parseSkillReference is given a reference with a repository
\* part and a skill name whose host is neither github.com nor localhost, the
\* error it raises is the one naming the supported hosts.
C22_AsStated ==
  (/\ last.op = "parseSkillReference"
   /\ Count(last.arg, "@") >= 2
   /\ last.arg[Len(last.arg)] # "@"
   /\ HostPart(last.arg) \notin {<<>>, <<GithubHost>>, <<LocalHost>>}) =>
    last.out.err = "Invalid host. Supported hosts: github.com, localhost"

\* ------------------------------------------------------------------- C23
\* C23: parseSkillReference raises for every github.com reference with more
\* than two '@', and the owner and repo of a parsed GitHub skill reference
\* never contain '@'.
C23_AsStated ==
  (last.op = "parseSkillReference") =>
    /\ (HostPart(last.arg) = <<GithubHost>> /\ Count(last.arg, "@") > 2) => last.out.err # ""
    /\ (last.out.err = "" /\ last.out.host = GithubHost) =>
          ~Contains(last.out.owner, "@") /\ ~Contains(last.out.repo, "@")

\* ------------------------------------------------------------------- C24
\* C24: with a cached copy ensureRepo never fails: a failed refresh prints a
\* warning and leaves the cached copy as it was; without a cache a failed
\* clone is fatal, with one message for a timeout, another for a missing
\* repository and another for an unreachable host.
C24_CacheSurvivesRefresh ==
  (last.op = "ensureRepo") =>
    /\ last.arg.cache.ver # 0 =>
          /\ last.out.err = ""
          /\ last.arg.env # "ok" => (last.out.warned /\ last.out.cache = last.arg.cache)
          /\ last.arg.env = "ok" => last.out.cache.ver = last.arg.upstream
    /\ (last.arg.cache.ver = 0 /\ last.arg.env # "ok") =>
          /\ last.out.cache = last.arg.cache
          /\ last.out.err =
                (CASE last.arg.env = "timeout" -> "Connection timed out"
                   [] last.arg.env = "notfound" -> "Repository not found"
                   [] last.arg.env = "unreachable" -> "Network error: Unable to connect")

\* a refresh of a cached source timed out
C24_Witness ==
  /\ last.op = "ensureRepo"
  /\ last.arg.cache.ver # 0
  /\ last.arg.env = "timeout"
  /\ last.out.warned

\* ------------------------------------------------------------------- C25
\* the value written for a header key of a manifest, <<>> when absent or ""
Written(f, key) ==
  LET hits == {i \in 1..Len(f.fields) : f.fields[i][1] = key}
      v == f.fields[CHOOSE i \in hits : TRUE][2]
  IN IF hits = {} \/ v = EmptyQuoted THEN <<>> ELSE v

HasKey(f, key) == \E i \in 1..Len(f.fields) : f.fields[i][1] = key

ParentDirName(f) == LET d == RepoDir \o f.dir IN <<d[Len(d)]>>

\* C25: the name of a discovered skill is the header's name field when it
\* is present and non-empty, and otherwise the name of the manifest's
\* immediate parent directory. Stated for manifests below the repository
\* root, whose parent directory has a name inside the repository, and for
\* name fields written as text.
C25_AsStated ==
  (/\ last.op = "parseSkillFrontmatter"
   /\ last.arg.dir # <<>>
   /\ Written(last.arg, "name") # <<"1">>) =>
    last.out.name = IF Written(last.arg, "name") # <<>> THEN Written(last.arg, "name")
                    ELSE ParentDirName(last.arg)

\* ------------------------------------------------------------------- C26
Truncated(line) == SubSeq(line, 1, Min(DescriptionMax, Len(line)))

\* the first non-blank, non-heading line of the body
FirstBodyLine(f) ==
  LET found == {i \in 1..Len(f.body) : Trim(f.body[i]) # <<>> /\ Trim(f.body[i])[1] # "#"}
  IN IF found = {} THEN <<>>
     ELSE Trim(f.body[CHOOSE i \in found : \A j \in found : i <= j])

\* C26: the description of a discovered skill is the header's description
\* field when present; otherwise the first non-blank, non-heading line after
\* the header block, cut to 100 characters; otherwise the placeholder.
C26_AsStated ==
  (last.op = "parseSkillFrontmatter") =>
    last.out.description =
      IF HasKey(last.arg, "description") THEN Written(last.arg, "description")
      ELSE IF FirstBodyLine(last.arg) # <<>> THEN Truncated(FirstBodyLine(last.arg))
      ELSE Placeholder

\* ------------------------------------------------------------------- C27
\* C27: a mutating command never lowers the commit count and raises it by at
\* most 1, or by at most 2 when the skills directory had no git metadata; a
\* successful undo lowers it by exactly 1; a count of 1 or more never
\* returns to 0.
C27_CommitCountSteps ==
  [][/\ (last'.op \in MutOps) =>
          /\ getCommitCount(repo') >= getCommitCount(repo)
          /\ getCommitCount(repo') <= getCommitCount(repo) + (IF repo.git THEN 1 ELSE 2)
     /\ (last'.op = "undo" /\ last'.exit = 0) =>
          getCommitCount(repo') = getCommitCount(repo) - 1
     /\ getCommitCount(repo) >= 1 => getCommitCount(repo') >= 1]_vars

\* an undo took a history of three commits, the last one made by the
\* command before it, back to two
C27_Witness ==
  /\ last.op = "undo" /\ last.exit = 0
  /\ last.afterCmd /\ last.cmdCommitted
  /\ getCommitCount(last.pre.repo) = 3
  /\ getCommitCount(repo) = 2

\* ------------------------------------------------------------------- C28
\* the content of path q in a snapshot, <<>> when the path is not in it
At(snap, q) ==
  LET hits == {x \in snap : x[1] = q[1] /\ x[2] = q[2]}
  IN IF hits = {} THEN <<>> ELSE <<(CHOOSE x \in hits : TRUE)[3]>>

\* C28: a successful undo changes only the files that differ between the
\* discarded commit and its parent; every other file, whether left
\* uncommitted by an earlier command or untracked, keeps its content.
C28_AsStated ==
  (last.op = "undo" /\ last.exit = 0) =>
    LET log == last.pre.repo.commits
        discarded == log[Len(log)].snap
        parent == log[Len(log) - 1].snap
        before == Snapshot(last.pre.tree)
        after == Snapshot(tree)
    IN \A q \in Paths(before) \cup Paths(after) :
          At(discarded, q) = At(parent, q) => At(after, q) = At(before, q)

\* ------------------------------------------------------------------- C29
NotAllowedMessage ==
  "Invalid skill name: only alphanumeric characters, dashes, and underscores are allowed"

\* C29: every top-level folder of the skills directory has a name matching
\* [A-Za-z0-9_-]+, so no command creates or writes into a hidden entry such
\* as .git; a mutating command that succeeded acted on such a name, and a
\* command whose name argument was rejected changed neither the working
\* tree nor the git metadata.
C29_OnlyAllowedFolders ==
  /\ \A n \in DOMAIN tree : MatchesAllowList(n)
  /\ (last.op \in MutOps /\ last.exit = 0) => MatchesAllowList(last.name)
  /\ (last.op \in MutOps /\ last.err = NotAllowedMessage) =>
        (tree = last.pre.tree /\ repo = last.pre.repo)

\* a delete of the hidden entry '.a' was rejected
C29_Witness ==
  /\ last.op = "delete"
  /\ last.err = NotAllowedMessage
  /\ last.pre.repo.git
  /\ tree = last.pre.tree

\* ------------------------------------------------------------------- C30
\* C30: for every repository reference r and every non-empty skill name n,
\* parseSkillReference(buildFullRef(r, n)) is r extended with skillName n.
C30_AsStated ==
  (last.op = "buildFullRef") =>
    last.out = [err |-> "", host |-> last.arg.ref.host, owner |-> last.arg.ref.owner,
                repo |-> last.arg.ref.repo, path |-> last.arg.ref.path,
                skillName |-> last.arg.name]

====
